---- MODULE Spec2Model ----
(***************************************************************************)
(* A model of hcxmaptool: the GPS track interpolation, the 802.11 frame    *)
(* decoder with its security classifier, the per-MAC aggregation, the      *)
(* spatial deduplication and the position estimation stage of main.        *)
(*                                                                         *)
(* Numbers.  f64 degrees are modelled in fixed point: one coordinate unit  *)
(* is 1e-6 degree (0.1113171 m on the sphere of radius 6378000 m).  The    *)
(* inputs are chosen so that the interpolation divisions are exact.        *)
(* Option<T> is a sequence of length 0 (None) or 1 (Some).                 *)
(***************************************************************************)
EXTENDS Integers, Sequences, FiniteSets, TLC

VARIABLES
    pc,             \* position of main: "group", "vendors", ..., or "call" in a function harness
    positions,      \* the GPS track (geo.rs get_positions result)
    packets,        \* the packets aggregated so far, in input order
    access_points,  \* mac -> AccessPoint (the HashMap of group_packets_by_mac, then main's Vec)
    todo,           \* macs main's estimation loop has not visited yet
    call            \* a function harness: the function, its arguments and its result

vars == <<pc, positions, packets, access_points, todo, call>>

----------------------------------------------------------------------------
(* Option<T> *)

None == << >>

Some(v) == << v >>

IsSome(o) == Len(o) = 1

IsNone(o) == Len(o) = 0

Unwrap(o) == o[1]

----------------------------------------------------------------------------
(* Bounds of the model *)

\* timestamps of fixes and packets are drawn from 0..MaxTime
MaxTime == 3

\* the longest GPS track of the get_position_at harness
MaxTrackLen == 3

----------------------------------------------------------------------------
(* geo.rs: Position, Observation *)

Position(lat, lon, ts) == [latitude |-> lat, longitude |-> lon, timestamp |-> ts]

Observation(pos, signal, dist) == [position |-> pos, signal_strength |-> signal, distance |-> dist]

Abs(x) == IF x < 0 THEN -x ELSE x

Max(a, b) == IF a >= b THEN a ELSE b

Min(a, b) == IF a <= b THEN a ELSE b

\* floor of the square root, by bisection on lo..hi (lo*lo <= n < (hi+1)*(hi+1))
RECURSIVE IsqrtIn(_, _, _)
IsqrtIn(n, lo, hi) ==
    IF lo >= hi THEN lo
    ELSE LET mid == (lo + hi + 1) \div 2
         IN  IF mid * mid <= n THEN IsqrtIn(n, mid, hi) ELSE IsqrtIn(n, lo, mid - 1)

Isqrt(n) == IsqrtIn(n, 0, 46340)

\* Rust's `/` on integers truncates toward zero; f64 division of the fixed-point
\* quantities is modelled the same way
DivT(a, b) == IF (a >= 0) = (b > 0) THEN Abs(a) \div Abs(b) ELSE -(Abs(a) \div Abs(b))

\* mutant: the result carries the first fix's timestamp instead of the requested one
InterpolateStampsFix(pos1, pos2, timestamp_secs) ==
    LET num == IF pos2.timestamp # pos1.timestamp THEN timestamp_secs - pos1.timestamp ELSE 0
        den == IF pos2.timestamp # pos1.timestamp THEN pos2.timestamp - pos1.timestamp ELSE 1
    IN  Position(pos1.latitude + DivT((pos2.latitude - pos1.latitude) * num, den),
                 pos1.longitude + DivT((pos2.longitude - pos1.longitude) * num, den),
                 pos1.timestamp)

(* get_position_at: the first consecutive pair bracketing the timestamp,      *)
(* interpolated linearly; None when there is none.                           *)
Interpolate(pos1, pos2, timestamp_secs) ==
    LET num == IF pos2.timestamp # pos1.timestamp THEN timestamp_secs - pos1.timestamp ELSE 0
        den == IF pos2.timestamp # pos1.timestamp THEN pos2.timestamp - pos1.timestamp ELSE 1
    IN  Position(pos1.latitude + DivT((pos2.latitude - pos1.latitude) * num, den),
                 pos1.longitude + DivT((pos2.longitude - pos1.longitude) * num, den),
                 timestamp_secs)

RECURSIVE ScanPairs(_, _, _)
ScanPairs(timestamp_secs, track, i) ==
    IF i > Len(track) - 1 THEN None
    ELSE IF timestamp_secs >= track[i].timestamp /\ timestamp_secs <= track[i + 1].timestamp
         THEN Some(Interpolate(track[i], track[i + 1], timestamp_secs))
         ELSE ScanPairs(timestamp_secs, track, i + 1)

\* mutant: a lone fix is re-stamped with the requested time, like an interpolated one
get_position_at_restamp(timestamp_secs, track) ==
    IF Len(track) = 0 THEN None
    ELSE IF Len(track) = 1
         THEN Some(Position(track[1].latitude, track[1].longitude, timestamp_secs))
    ELSE ScanPairs(timestamp_secs, track, 1)

get_position_at(timestamp_secs, track) ==
    IF Len(track) = 0 THEN None
    ELSE IF Len(track) = 1 THEN Some(track[1])
    ELSE ScanPairs(timestamp_secs, track, 1)

----------------------------------------------------------------------------
(* geo.rs: distances.  Lengths are in millimetres.                          *)

\* (R * pi / 180 * 1e-6 degree)^2 in mm^2 for R = 6378000 m: the square of one
\* coordinate unit on the ground
UnitSqMm == 12391

\* MIN_DISTANCE_BETWEEN_OBS = 5.0 m
MIN_DISTANCE_BETWEEN_OBS == 5000

\* RSSI_AT_1M = -35.0 dBm
RSSI_AT_1M == -35

\* 10.0 * PATH_LOSS_EXPONENT = 25
TEN_PATH_LOSS_EXPONENT == 25

(* haversine_distance in mm.  The model's coordinates stay within 2e-4 degree *)
(* of the equator and of each other, where cos(lat1) * cos(lat2) differs from *)
(* 1 by less than 1e-11 and the haversine formula agrees with the planar      *)
(* distance to less than 2 mm; `dist < 5 m` is decided as f64 decides it for  *)
(* every pair of integer coordinates in that band.                            *)
haversine_distance(lat1, lon1, lat2, lon2) ==
    LET dlat == lat2 - lat1
        dlon == lon2 - lon1
    IN  Isqrt((dlat * dlat + dlon * dlon) * UnitSqMm)

\* 10000 * 10^(j/25) for j = 0..24
Pow10Frac ==
    << 10000, 10965, 12023, 13183, 14454, 15849, 17378, 19055, 20893, 22909,
       25119, 27542, 30200, 33113, 36308, 39811, 43652, 47863, 52481, 57544,
       63096, 69183, 75858, 83176, 91201 >>

RECURSIVE Pow10(_)
Pow10(n) == IF n = 0 THEN 1 ELSE 10 * Pow10(n - 1)

\* rssi_to_distance: 10^((RSSI_AT_1M - rssi) / (10 * PATH_LOSS_EXPONENT)) m, in mm
rssi_to_distance(rssi) ==
    LET k == RSSI_AT_1M - rssi
        q == k \div TEN_PATH_LOSS_EXPONENT
        r == k % TEN_PATH_LOSS_EXPONENT
    IN  IF q >= 1 THEN Pow10Frac[r + 1] * Pow10(q - 1)
        ELSE Pow10Frac[r + 1] \div Pow10(1 - q)

----------------------------------------------------------------------------
(* geo.rs: filter_close_observations *)

\* mutant: the comparison of sort_by the other way round, weakest first
RECURSIVE InsertBySignalWeakestFirst(_, _)
InsertBySignalWeakestFirst(sorted, x) ==
    IF sorted = << >> THEN << x >>
    ELSE IF sorted[1].signal_strength <= x.signal_strength
         THEN << sorted[1] >> \o InsertBySignalWeakestFirst(Tail(sorted), x)
         ELSE << x >> \o sorted

\* observations.sort_by(|a, b| b.signal_strength.cmp(&a.signal_strength)): a stable
\* sort, strongest first; x goes after every element at least as strong
RECURSIVE InsertBySignal(_, _)
InsertBySignal(sorted, x) ==
    IF sorted = << >> THEN << x >>
    ELSE IF sorted[1].signal_strength >= x.signal_strength
         THEN << sorted[1] >> \o InsertBySignal(Tail(sorted), x)
         ELSE << x >> \o sorted

RECURSIVE SortBySignalFrom(_, _, _)
SortBySignalFrom(observations, i, sorted) ==
    IF i > Len(observations) THEN sorted
    ELSE SortBySignalFrom(observations, i + 1, InsertBySignal(sorted, observations[i]))

SortBySignal(observations) == SortBySignalFrom(observations, 1, << >>)

\* dist < MIN_DISTANCE_BETWEEN_OBS
\* mutant: a threshold of 10 m
TooCloseTenMetres(obs, existing) ==
    haversine_distance(obs.position.latitude, obs.position.longitude,
                       existing.position.latitude, existing.position.longitude)
        < 2 * MIN_DISTANCE_BETWEEN_OBS

TooClose(obs, existing) ==
    haversine_distance(obs.position.latitude, obs.position.longitude,
                       existing.position.latitude, existing.position.longitude)
        < MIN_DISTANCE_BETWEEN_OBS

\* the loop over observations.iter().skip(1): keep obs unless it is too close to
\* an observation already kept
RECURSIVE FilterFrom(_, _, _)
FilterFrom(sorted, i, filtered) ==
    IF i > Len(sorted) THEN filtered
    ELSE LET obs == sorted[i]
             keep == \A j \in 1..Len(filtered) : ~TooClose(obs, filtered[j])
         IN  FilterFrom(sorted, i + 1, IF keep THEN Append(filtered, obs) ELSE filtered)

\* mutant: a candidate is compared with the strongest kept observation only
RECURSIVE FilterFromFirstOnly(_, _, _)
FilterFromFirstOnly(sorted, i, filtered) ==
    IF i > Len(sorted) THEN filtered
    ELSE LET obs == sorted[i]
             keep == ~TooClose(obs, filtered[1])
         IN  FilterFromFirstOnly(sorted, i + 1,
                                 IF keep THEN Append(filtered, obs) ELSE filtered)

filter_close_observations_first_only(observations) ==
    IF Len(observations) <= 1 THEN observations
    ELSE LET sorted == SortBySignal(observations)
         IN  FilterFromFirstOnly(sorted, 2, << sorted[1] >>)

filter_close_observations(observations) ==
    IF Len(observations) <= 1 THEN observations
    ELSE LET sorted == SortBySignal(observations)
         IN  FilterFrom(sorted, 2, << sorted[1] >>)

----------------------------------------------------------------------------
(* geo.rs: weighted_centroid and trilateration *)

RECURSIVE SumOver(_, _, _)
\* the sum of f[i] for i in lo..hi
SumOver(f, lo, hi) == IF lo > hi THEN 0 ELSE f[lo] + SumOver(f, lo + 1, hi)

\* mutant: the `.max(0.0)` is missing
CentroidWeightUnfloored(signal) == ((signal + 100) * 300) \div 75

\* 3 * ((signal + 100) / 75 * 100).max(0): the weights are kept three times their
\* value, which leaves every weighted mean and the test `total_weight == 0` as is
CentroidWeight(signal) == Max(0, ((signal + 100) * 300) \div 75)

weighted_centroid(observations) ==
    IF Len(observations) = 0 THEN None
    ELSE LET n == Len(observations)
             weight == [i \in 1..n |-> CentroidWeight(observations[i].signal_strength)]
             total_weight == SumOver(weight, 1, n)
             weighted_lat ==
                 SumOver([i \in 1..n |-> observations[i].position.latitude * weight[i]], 1, n)
             weighted_lon ==
                 SumOver([i \in 1..n |-> observations[i].position.longitude * weight[i]], 1, n)
         IN  IF total_weight = 0
             THEN Some(Position(
                      DivT(SumOver([i \in 1..n |-> observations[i].position.latitude], 1, n), n),
                      DivT(SumOver([i \in 1..n |-> observations[i].position.longitude], 1, n), n),
                      observations[1].position.timestamp))
             ELSE Some(Position(DivT(weighted_lat, total_weight),
                                DivT(weighted_lon, total_weight),
                                observations[1].position.timestamp))

\* const MAX_ITERATIONS: usize = 100
MAX_ITERATIONS == 100

\* CONVERGENCE_THRESHOLD = 0.000001 degree, in 1e-9 degree
CONVERGENCE_THRESHOLD == 1000

(* Inside trilateration the estimate is kept in 1e-9 degree (a thousandth of a *)
(* coordinate unit), lengths in mm.                                            *)

(* Latitudes are kept relative to the origin of their band: values far below  *)
(* POLAR_CUT count micro-degrees from the equator, values around POLAR_CUT   *)
(* count them from the latitude (89.427 degrees) whose cosine is 0.01, which *)
(* stands at POLAR_CUT.                                                      *)
POLAR_CUT == 1000000

\* 1000 * est_lat.to_radians().cos(), est_lat in 1e-9 degree: 1.000 near the equator,
\* 0.010 in the polar band up to the cut, under 0.010 beyond it
CosLatMilli(est_lat) ==
    IF est_lat > POLAR_CUT * 1000 THEN 9
    ELSE IF est_lat > (POLAR_CUT \div 2) * 1000 THEN 10
    ELSE 1000

\* weight * weight for weight = ((signal + 100) / 70).clamp(0, 1), times 4900
TrilatWeightSq(signal) ==
    LET w == Min(70, Max(0, signal + 100)) IN w * w

\* (dx * dx + dy * dy).sqrt() in mm: to the mm under 30 m, to the cm beyond
Hypot(dx, dy) ==
    IF Abs(dx) < 30000 /\ Abs(dy) < 30000 THEN Isqrt(dx * dx + dy * dy)
    ELSE 10 * Isqrt(DivT(dx, 10) * DivT(dx, 10) + DivT(dy, 10) * DivT(dy, 10))

\* one observation's share of the gradient: skip is TRUE where the code `continue`s
TrilatTerm(est_lat, est_lon, obs) ==
    LET cos_lat == CosLatMilli(est_lat)
        \* (est_lon - lon) * 111320.0 * cos_lat and (est_lat - lat) * 110540.0, in mm
        dx == DivT(DivT((est_lon - obs.position.longitude * 1000) * 1113, 10000) * cos_lat, 1000)
        dy == DivT((est_lat - obs.position.latitude * 1000) * 1105, 10000)
        calculated_distance == Hypot(dx, dy)
        error == calculated_distance - obs.distance
        weight_sq == TrilatWeightSq(obs.signal_strength)
    IN  IF Abs(cos_lat) < 10 THEN [skip |-> TRUE]
        ELSE IF calculated_distance < 100 THEN [skip |-> TRUE]
        ELSE [skip |-> FALSE,
              \* weight_sq * error * dy / calculated_distance, and the same for dx
              grad_lat |-> IF weight_sq = 0 THEN 0
                           ELSE weight_sq * DivT(error * DivT(dy * 1000, calculated_distance), 1000),
              grad_lon |-> IF weight_sq = 0 THEN 0
                           ELSE weight_sq * DivT(error * DivT(dx * 1000, calculated_distance), 1000),
              weight_sq |-> weight_sq]

\* one pass of `for obs in observations`: the sums and the two updates in 1e-9 degree
TrilatStep(est_lat, est_lon, observations) ==
    LET n == Len(observations)
        term == [i \in 1..n |-> TrilatTerm(est_lat, est_lon, observations[i])]
        total_weight == SumOver([i \in 1..n |-> IF term[i].skip THEN 0 ELSE term[i].weight_sq], 1, n)
        sum_lat == SumOver([i \in 1..n |-> IF term[i].skip THEN 0 ELSE term[i].grad_lat], 1, n)
        sum_lon == SumOver([i \in 1..n |-> IF term[i].skip THEN 0 ELSE term[i].grad_lon], 1, n)
    IN  IF total_weight = 0 THEN [total_weight |-> 0]
        ELSE [total_weight |-> total_weight,
              \* grad / total_weight / 110540 * LEARNING_RATE degree
              update_lat |-> DivT(DivT(sum_lat, total_weight) * 100, 11054),
              update_lon |-> DivT(DivT(DivT(sum_lon, total_weight) * 1000,
                                       CosLatMilli(est_lat)) * 100, 11132)]

\* the body of `for _ in 0..MAX_ITERATIONS` on the loop's state; exit is "running"
\* until a `return` or a `break` has been taken.  The step is bound as the one
\* element of a set, so it is computed once.
TrilatIteration(loop, observations) ==
    IF loop.exit # "running" THEN loop
    ELSE CHOOSE next \in
           { IF st.total_weight = 0
             THEN [loop EXCEPT !.steps = @ + 1, !.exit = "zero_weight"]
             ELSE [steps |-> loop.steps + 1,
                   exit |-> IF Abs(st.update_lat) < CONVERGENCE_THRESHOLD
                               /\ Abs(st.update_lon) < CONVERGENCE_THRESHOLD
                            THEN "converged" ELSE "running",
                   latitude |-> loop.latitude - st.update_lat,
                   longitude |-> loop.longitude - st.update_lon] :
             st \in { TrilatStep(loop.latitude, loop.longitude, observations) } } : TRUE

\* n iterations in a row, the second half from where the first half ended
RECURSIVE TrilatIterations(_, _, _)
TrilatIterations(loop, n, observations) ==
    IF n <= 0 THEN loop
    ELSE IF n = 1 THEN TrilatIteration(loop, observations)
    ELSE CHOOSE end \in
           { IF half.exit # "running" THEN half
             ELSE TrilatIterations(half, n - n \div 2, observations) :
             half \in { TrilatIterations(loop, n \div 2, observations) } } : TRUE

\* `for _ in 0..MAX_ITERATIONS` from iteration iter on: [steps, exit, latitude,
\* longitude] at its end
TrilatLoop(iter, est_lat, est_lon, observations) ==
    CHOOSE end \in
      { IF last.exit = "running" THEN [last EXCEPT !.exit = "exhausted"] ELSE last :
        last \in { TrilatIterations(loop, MAX_ITERATIONS - iter, observations) :
                   loop \in { [steps |-> iter, exit |-> "running",
                               latitude |-> est_lat, longitude |-> est_lon] } } } : TRUE

\* mutant: on a total weight of 0 the estimate reached so far is returned
trilateration_keeps_updates(observations) ==
    IF Len(observations) < 3 THEN weighted_centroid(observations)
    ELSE LET initial == weighted_centroid(observations)
         IN  IF IsNone(initial) THEN None
             ELSE LET end == TrilatLoop(0, Unwrap(initial).latitude * 1000,
                                        Unwrap(initial).longitude * 1000, observations)
                  IN  Some(Position(DivT(end.latitude, 1000), DivT(end.longitude, 1000),
                                    observations[1].position.timestamp))

trilateration(observations) ==
    IF Len(observations) < 3 THEN weighted_centroid(observations)
    ELSE LET initial == weighted_centroid(observations)
         IN  IF IsNone(initial) THEN None
             ELSE LET end == TrilatLoop(0, Unwrap(initial).latitude * 1000,
                                        Unwrap(initial).longitude * 1000, observations)
                  IN  IF end.exit = "zero_weight" THEN initial
                      ELSE Some(Position(DivT(end.latitude, 1000), DivT(end.longitude, 1000),
                                         observations[1].position.timestamp))

----------------------------------------------------------------------------
(* packets.rs: the frame decoder.  A buffer is a sequence of bytes 0..255;    *)
(* the code's indices count from 0.  A String is kept as its UTF-8 bytes.     *)

Packet(ts, mac, ssid, signal, channel, security) ==
    [timestamp |-> ts, source_address |-> mac, ssid |-> ssid,
     signal_strength |-> signal, channel |-> channel, security |-> security]

\* buf[i]
At(buf, i) == buf[i + 1]

\* &buf[from..to]
Slice(buf, from, to) == SubSeq(buf, from + 1, to)

\* u16::from_le_bytes([lo, hi])
U16Le(lo, hi) == lo + 256 * hi

\* std::str::from_utf8(bytes).is_ok(): the well-formed UTF-8 byte sequences
RECURSIVE Utf8ValidFrom(_, _)
Utf8ValidFrom(bytes, i) ==
    LET n == Len(bytes)
        cont(k) == k < n /\ At(bytes, k) >= 128 /\ At(bytes, k) <= 191
        in(k, lo, hi) == k < n /\ At(bytes, k) >= lo /\ At(bytes, k) <= hi
        b == At(bytes, i)
    IN  IF i >= n THEN TRUE
        ELSE IF b <= 127 THEN Utf8ValidFrom(bytes, i + 1)
        ELSE IF b >= 194 /\ b <= 223 THEN cont(i + 1) /\ Utf8ValidFrom(bytes, i + 2)
        ELSE IF b = 224 THEN in(i + 1, 160, 191) /\ cont(i + 2) /\ Utf8ValidFrom(bytes, i + 3)
        ELSE IF (b >= 225 /\ b <= 236) \/ b = 238 \/ b = 239
             THEN cont(i + 1) /\ cont(i + 2) /\ Utf8ValidFrom(bytes, i + 3)
        ELSE IF b = 237 THEN in(i + 1, 128, 159) /\ cont(i + 2) /\ Utf8ValidFrom(bytes, i + 3)
        ELSE IF b = 240
             THEN in(i + 1, 144, 191) /\ cont(i + 2) /\ cont(i + 3) /\ Utf8ValidFrom(bytes, i + 4)
        ELSE IF b >= 241 /\ b <= 243
             THEN cont(i + 1) /\ cont(i + 2) /\ cont(i + 3) /\ Utf8ValidFrom(bytes, i + 4)
        ELSE IF b = 244
             THEN in(i + 1, 128, 143) /\ cont(i + 2) /\ cont(i + 3) /\ Utf8ValidFrom(bytes, i + 4)
        ELSE FALSE

Utf8Valid(bytes) == Utf8ValidFrom(bytes, 0)

\* the `while offset + 2 <= frame_body.len()` loop of parse_management_frame_body
RECURSIVE SsidWalk(_, _)
SsidWalk(frame_body, offset) ==
    IF offset + 2 > Len(frame_body) THEN None
    ELSE LET tag_number == At(frame_body, offset)
             tag_length == At(frame_body, offset + 1)
         IN  IF offset + 2 + tag_length > Len(frame_body) THEN None
             ELSE IF tag_number = 0 /\ tag_length > 0
                  THEN LET ssid_bytes == Slice(frame_body, offset + 2, offset + 2 + tag_length)
                       IN  IF Utf8Valid(ssid_bytes) /\ ssid_bytes # << >>
                           THEN Some(ssid_bytes) ELSE None
                  ELSE SsidWalk(frame_body, offset + 2 + tag_length)

\* mutant: the walk goes on after an SSID element that cannot be decoded
RECURSIVE SsidWalkPastUndecodable(_, _)
SsidWalkPastUndecodable(frame_body, offset) ==
    IF offset + 2 > Len(frame_body) THEN None
    ELSE LET tag_number == At(frame_body, offset)
             tag_length == At(frame_body, offset + 1)
             ssid_bytes == Slice(frame_body, offset + 2, offset + 2 + tag_length)
         IN  IF offset + 2 + tag_length > Len(frame_body) THEN None
             ELSE IF tag_number = 0 /\ tag_length > 0 /\ Utf8Valid(ssid_bytes)
                  THEN Some(ssid_bytes)
                  ELSE SsidWalkPastUndecodable(frame_body, offset + 2 + tag_length)

parse_management_frame_body_past_undecodable(frame_body) ==
    IF Len(frame_body) < 12 THEN None ELSE SsidWalkPastUndecodable(frame_body, 12)

parse_management_frame_body(frame_body) ==
    IF Len(frame_body) < 12 THEN None ELSE SsidWalk(frame_body, 12)

NoFlags == [has_rsn |-> FALSE, has_wpa |-> FALSE, has_sae |-> FALSE, has_psk |-> FALSE]

\* mutant: an RSN element counts only when its prefix and AKM count are there
RsnArmWholeOnly(flags, tag_data) ==
    LET tag_length == Len(tag_data)
        pairwise_count == U16Le(At(tag_data, 6), At(tag_data, 7))
        akm_offset == 8 + pairwise_count * 4
        akm_count == U16Le(At(tag_data, akm_offset), At(tag_data, akm_offset + 1))
        fits == { i \in 0..(Min(akm_count, tag_length) - 1) :
                    tag_length >= akm_offset + 2 + i * 4 + 4 }
        akm_type(i) == At(tag_data, akm_offset + 2 + i * 4 + 3)
        parsed == tag_length >= 8 /\ tag_length >= akm_offset + 2
    IN  [flags EXCEPT
            !.has_rsn = @ \/ parsed,
            !.has_psk = @ \/ (parsed /\ \E i \in fits : akm_type(i) = 2),
            !.has_sae = @ \/ (parsed /\ \E i \in fits : akm_type(i) = 8)]

\* the `48 =>` arm: the flags after an RSN element with payload tag_data
RsnArm(flags, tag_data) ==
    LET tag_length == Len(tag_data)
        pairwise_count == U16Le(At(tag_data, 6), At(tag_data, 7))
        akm_offset == 8 + pairwise_count * 4
        akm_count == U16Le(At(tag_data, akm_offset), At(tag_data, akm_offset + 1))
        \* the suites i in 0..akm_count whose four bytes lie inside tag_data
        fits == { i \in 0..(Min(akm_count, tag_length) - 1) :
                    tag_length >= akm_offset + 2 + i * 4 + 4 }
        akm_type(i) == At(tag_data, akm_offset + 2 + i * 4 + 3)
        parsed == tag_length >= 8 /\ tag_length >= akm_offset + 2
    IN  [flags EXCEPT
            !.has_rsn = TRUE,
            !.has_psk = @ \/ (parsed /\ \E i \in fits : akm_type(i) = 2),
            !.has_sae = @ \/ (parsed /\ \E i \in fits : akm_type(i) = 8)]

\* the `221 =>` arm
VendorArm(flags, tag_data) ==
    IF Len(tag_data) >= 8
       /\ Len(tag_data) >= 4
       /\ At(tag_data, 0) = 0 /\ At(tag_data, 1) = 80
       /\ At(tag_data, 2) = 242 /\ At(tag_data, 3) = 1
    THEN [flags EXCEPT !.has_wpa = TRUE]
    ELSE flags

\* the `while offset + 2 <= frame_body.len()` loop of parse_wifi_security
RECURSIVE SecurityWalk(_, _, _)
SecurityWalk(frame_body, offset, flags) ==
    IF offset + 2 > Len(frame_body) THEN flags
    ELSE LET tag_number == At(frame_body, offset)
             tag_length == At(frame_body, offset + 1)
             tag_data == Slice(frame_body, offset + 2, offset + 2 + tag_length)
         IN  IF offset + 2 + tag_length > Len(frame_body) THEN flags
             ELSE SecurityWalk(frame_body, offset + 2 + tag_length,
                               CASE tag_number = 48 -> RsnArm(flags, tag_data)
                                 [] tag_number = 221 -> VendorArm(flags, tag_data)
                                 [] OTHER -> flags)

\* mutant: the vendor WPA marker is looked at before the RSN element
ResolveWpaFirst(flags, privacy_enabled) ==
    IF flags.has_wpa THEN "WPA"
    ELSE IF flags.has_rsn
    THEN IF flags.has_sae /\ flags.has_psk THEN "WPA2WPA3"
         ELSE IF flags.has_sae THEN "WPA3"
         ELSE "WPA2"
    ELSE IF privacy_enabled THEN "WEP"
    ELSE "Unknown"

\* mutant: the `else if privacy_enabled` arm is missing
ResolveNoWep(flags, privacy_enabled) ==
    IF flags.has_rsn
    THEN IF flags.has_sae /\ flags.has_psk THEN "WPA2WPA3"
         ELSE IF flags.has_sae THEN "WPA3"
         ELSE "WPA2"
    ELSE IF flags.has_wpa THEN "WPA"
    ELSE "Unknown"

\* the `if has_rsn { ... }` chain that ends parse_wifi_security
Resolve(flags, privacy_enabled) ==
    IF flags.has_rsn
    THEN IF flags.has_sae /\ flags.has_psk THEN "WPA2WPA3"
         ELSE IF flags.has_sae THEN "WPA3"
         ELSE "WPA2"
    ELSE IF flags.has_wpa THEN "WPA"
    ELSE IF privacy_enabled THEN "WEP"
    ELSE "Unknown"

parse_wifi_security(frame_body, capabilities) ==
    LET privacy_enabled == (capabilities \div 16) % 2 # 0
    IN  IF ~privacy_enabled THEN "Open"
        ELSE IF Len(frame_body) < 12 THEN "Unknown"
        ELSE Resolve(SecurityWalk(frame_body, 12, NoFlags), privacy_enabled)

\* the frequency -> channel match of parse_wifi_packet
FreqToChannel(freq) ==
    IF freq >= 2412 /\ freq <= 2472 /\ (freq - 2412) % 5 = 0 THEN Some((freq - 2412) \div 5 + 1)
    ELSE IF freq = 2484 THEN Some(14)
    ELSE IF freq >= 5180 /\ freq <= 5320 /\ (freq - 5180) % 20 = 0
         THEN Some((freq - 5180) \div 5 + 36)
    ELSE IF freq >= 5500 /\ freq <= 5700 /\ (freq - 5500) % 20 = 0
         THEN Some((freq - 5500) \div 5 + 100)
    ELSE IF freq >= 5745 /\ freq <= 5825 /\ (freq - 5745) % 20 = 0
         THEN Some((freq - 5745) \div 5 + 149)
    ELSE None

\* extract_mac
extract_mac(bytes) == bytes

\* mutant: the to-DS and from-DS arms exchanged
DataFrameAddressSwapped(wlan_data, to_ds, from_ds) ==
    IF to_ds = 1 /\ from_ds = 0 THEN Some(extract_mac(Slice(wlan_data, 10, 16)))
    ELSE IF to_ds = 0 /\ from_ds = 1 THEN Some(extract_mac(Slice(wlan_data, 4, 10)))
    ELSE IF to_ds = 0 /\ from_ds = 0 THEN Some(extract_mac(Slice(wlan_data, 16, 22)))
    ELSE None

\* `match (to_ds, from_ds)`: the AP address of a data frame, None for `_ => return None`
DataFrameAddress(wlan_data, to_ds, from_ds) ==
    IF to_ds = 1 /\ from_ds = 0 THEN Some(extract_mac(Slice(wlan_data, 4, 10)))
    ELSE IF to_ds = 0 /\ from_ds = 1 THEN Some(extract_mac(Slice(wlan_data, 10, 16)))
    ELSE IF to_ds = 0 /\ from_ds = 0 THEN Some(extract_mac(Slice(wlan_data, 16, 22)))
    ELSE None

(* parse_wifi_packet.  radiotap is what Radiotap::from_bytes(data) gave: the *)
(* empty sequence for Err, else <<[length, antenna_signal, channel_freq]>>.  *)
parse_wifi_packet(data, radiotap, timestamp) ==
    IF IsNone(radiotap) THEN None
    ELSE LET radiotap_len == Unwrap(radiotap).length
             signal_strength == Unwrap(radiotap).antenna_signal
             channel == IF IsSome(Unwrap(radiotap).channel_freq)
                        THEN FreqToChannel(Unwrap(Unwrap(radiotap).channel_freq))
                        ELSE None
             wlan_data == Slice(data, radiotap_len, Len(data))
             frame_control == U16Le(At(wlan_data, 0), At(wlan_data, 1))
             frame_type == (frame_control \div 4) % 4
             frame_subtype == (frame_control \div 16) % 16
             to_ds == (frame_control \div 256) % 2
             from_ds == (frame_control \div 512) % 2
             with_body == Len(wlan_data) >= 36
             frame_body == Slice(wlan_data, 24, Len(wlan_data))
             capabilities == U16Le(At(wlan_data, 34), At(wlan_data, 35))
             packet(ap_mac, ssid, security) ==
                 Some(Packet(timestamp, Some(ap_mac), ssid, signal_strength, channel, security))
         IN  IF Len(data) < radiotap_len + 24 THEN None
             ELSE IF Len(wlan_data) < 24 THEN None
             ELSE IF frame_type = 0
                  THEN IF frame_subtype = 8 \/ frame_subtype = 5
                       THEN IF with_body
                            THEN packet(extract_mac(Slice(wlan_data, 10, 16)),
                                        parse_management_frame_body(frame_body),
                                        Some(parse_wifi_security(frame_body, capabilities)))
                            ELSE packet(extract_mac(Slice(wlan_data, 10, 16)), None, None)
                       ELSE IF frame_subtype = 1 \/ frame_subtype = 3
                       THEN packet(extract_mac(Slice(wlan_data, 10, 16)), None, None)
                       ELSE None
             ELSE IF frame_type = 2
                  THEN IF IsSome(DataFrameAddress(wlan_data, to_ds, from_ds))
                       THEN packet(Unwrap(DataFrameAddress(wlan_data, to_ds, from_ds)),
                                   None, None)
                       ELSE None
             ELSE None

----------------------------------------------------------------------------
(* What the decoder touches.  An access is an index expression buf[i]        *)
(* (at = i, to = i + 1) or a range expression &buf[a..b] (at = a, to = b) on *)
(* a slice of len bytes; Rust panics on it unless at <= to <= len.  A walk's *)
(* cursors are the values of offset at which the loop body is entered.       *)

Access(at, to, len) == [at |-> at, to |-> to, len |-> len]

Index(i, len) == Access(i, i + 1, len)

NoTrace == [accesses |-> {}, cursors |-> << >>]

\* mutant: the `if offset + 2 + tag_length > frame_body.len() { break; }` is missing
RECURSIVE SsidWalkTraceUnchecked(_, _, _)
SsidWalkTraceUnchecked(frame_body, offset, trace) ==
    IF offset + 2 > Len(frame_body) THEN trace
    ELSE LET n == Len(frame_body)
             tag_number == At(frame_body, offset)
             tag_length == At(frame_body, offset + 1)
             here == [accesses |-> trace.accesses \cup {Index(offset, n), Index(offset + 1, n)},
                      cursors |-> Append(trace.cursors, offset)]
         IN  IF tag_number = 0 /\ tag_length > 0
             THEN [here EXCEPT !.accesses =
                                 @ \cup {Access(offset + 2, offset + 2 + tag_length, n)}]
             ELSE SsidWalkTraceUnchecked(frame_body, offset + 2 + tag_length, here)

\* the accesses and cursors of the loop of parse_management_frame_body
RECURSIVE SsidWalkTrace(_, _, _)
SsidWalkTrace(frame_body, offset, trace) ==
    IF offset + 2 > Len(frame_body) THEN trace
    ELSE LET n == Len(frame_body)
             tag_number == At(frame_body, offset)
             tag_length == At(frame_body, offset + 1)
             here == [accesses |-> trace.accesses \cup {Index(offset, n), Index(offset + 1, n)},
                      cursors |-> Append(trace.cursors, offset)]
         IN  IF offset + 2 + tag_length > n THEN here
             ELSE IF tag_number = 0 /\ tag_length > 0
                  THEN [here EXCEPT !.accesses =
                                      @ \cup {Access(offset + 2, offset + 2 + tag_length, n)}]
                  ELSE SsidWalkTrace(frame_body, offset + 2 + tag_length, here)

\* the accesses of the `48 =>` arm inside tag_data
RsnArmAccesses(tag_data) ==
    LET n == Len(tag_data)
        pairwise_count == U16Le(At(tag_data, 6), At(tag_data, 7))
        akm_offset == 8 + pairwise_count * 4
        akm_count == U16Le(At(tag_data, akm_offset), At(tag_data, akm_offset + 1))
        suite_offset(i) == akm_offset + 2 + i * 4
    IN  IF n < 8 THEN {}
        ELSE {Index(6, n), Index(7, n)}
             \cup IF n < akm_offset + 2 THEN {}
                  ELSE {Index(akm_offset, n), Index(akm_offset + 1, n)}
                       \cup { Index(suite_offset(i) + 3, n) :
                                i \in { j \in 0..(Min(akm_count, n) - 1) :
                                          n >= suite_offset(j) + 4 } }

\* the accesses of the `221 =>` arm inside tag_data: the && chain reads a byte
\* only when the comparisons before it held
VendorArmAccesses(tag_data) ==
    LET n == Len(tag_data)
        oui == <<0, 80, 242, 1>>
    IN  IF n < 4 THEN {}
        ELSE { Index(i, n) : i \in { j \in 0..3 : \A k \in 0..(j - 1) : At(tag_data, k) = oui[k + 1] } }

\* the accesses and cursors of the loop of parse_wifi_security
RECURSIVE SecurityWalkTrace(_, _, _)
SecurityWalkTrace(frame_body, offset, trace) ==
    IF offset + 2 > Len(frame_body) THEN trace
    ELSE LET n == Len(frame_body)
             tag_number == At(frame_body, offset)
             tag_length == At(frame_body, offset + 1)
             tag_data == Slice(frame_body, offset + 2, offset + 2 + tag_length)
             here == [accesses |-> trace.accesses \cup {Index(offset, n), Index(offset + 1, n)},
                      cursors |-> Append(trace.cursors, offset)]
             inside == IF tag_number \in {48, 221} /\ tag_length >= 8
                       THEN {Access(offset + 2, offset + 2 + tag_length, n)}
                            \cup IF tag_number = 48 THEN RsnArmAccesses(tag_data)
                                 ELSE VendorArmAccesses(tag_data)
                       ELSE {}
         IN  IF offset + 2 + tag_length > n THEN here
             ELSE SecurityWalkTrace(frame_body, offset + 2 + tag_length,
                                    [here EXCEPT !.accesses = @ \cup inside])

(* The accesses of parse_wifi_packet and of the two walks it calls, and the  *)
(* cursors of the walks; radiotap as for parse_wifi_packet.                  *)
parse_wifi_packet_trace(data, radiotap) ==
    LET radiotap_len == Unwrap(radiotap).length
        wlan_data == Slice(data, radiotap_len, Len(data))
        w == Len(wlan_data)
        frame_control == U16Le(At(wlan_data, 0), At(wlan_data, 1))
        frame_type == (frame_control \div 4) % 4
        frame_subtype == (frame_control \div 16) % 16
        to_ds == (frame_control \div 256) % 2
        from_ds == (frame_control \div 512) % 2
        frame_body == Slice(wlan_data, 24, w)
        capabilities == U16Le(At(wlan_data, 34), At(wlan_data, 35))
        privacy_enabled == (capabilities \div 16) % 2 # 0
        header == {Access(radiotap_len, Len(data), Len(data)), Index(0, w), Index(1, w)}
        ssid == IF Len(frame_body) < 12 THEN NoTrace ELSE SsidWalkTrace(frame_body, 12, NoTrace)
        security == IF ~privacy_enabled \/ Len(frame_body) < 12 THEN NoTrace
                    ELSE SecurityWalkTrace(frame_body, 12, NoTrace)
        own(accesses) == [accesses |-> accesses, ssid |-> NoTrace, security |-> NoTrace]
    IN  IF IsNone(radiotap) THEN own({})
        ELSE IF Len(data) < radiotap_len + 24 THEN own({})
        ELSE IF w < 24 THEN own({Access(radiotap_len, Len(data), Len(data))})
        ELSE IF frame_type = 0
             THEN IF frame_subtype = 8 \/ frame_subtype = 5
                  THEN IF w >= 36
                       THEN [accesses |-> header \cup {Access(10, 16, w), Index(34, w),
                                                       Index(35, w), Access(24, w, w)},
                             ssid |-> ssid, security |-> security]
                       ELSE own(header \cup {Access(10, 16, w)})
                  ELSE IF frame_subtype = 1 \/ frame_subtype = 3
                  THEN own(header \cup {Access(10, 16, w)})
                  ELSE own(header)
        ELSE IF frame_type = 2
             THEN IF to_ds = 1 /\ from_ds = 0 THEN own(header \cup {Access(4, 10, w)})
                  ELSE IF to_ds = 0 /\ from_ds = 1 THEN own(header \cup {Access(10, 16, w)})
                  ELSE IF to_ds = 0 /\ from_ds = 0 THEN own(header \cup {Access(16, 22, w)})
                  ELSE own(header)
        ELSE own(header)

----------------------------------------------------------------------------
(* packets.rs: Packet, group_packets_by_mac; main.rs: AccessPoint *)

\* the AccessPoint of or_insert_with
NewAccessPoint(mac, packet) ==
    [mac |-> mac, ssid |-> packet.ssid, observations |-> << >>,
     estimated_position |-> None, position_method |-> None, security |-> None,
     channel |-> packet.channel, vendor |-> None, password |-> None]

\* mutant: the entry is made before the position is looked up
GroupPacketIntoEagerEntry(mac_map, packet, track) ==
    IF IsNone(packet.source_address) THEN mac_map
    ELSE IF IsNone(packet.signal_strength) THEN mac_map
    ELSE LET mac == Unwrap(packet.source_address)
             signal == Unwrap(packet.signal_strength)
             pos == get_position_at(packet.timestamp, track)
             entry == IF mac \in DOMAIN mac_map THEN mac_map[mac]
                      ELSE NewAccessPoint(mac, packet)
             pushed == IF IsNone(pos) THEN entry
                       ELSE [entry EXCEPT !.observations =
                               Append(@, Observation(Unwrap(pos), signal,
                                                     rssi_to_distance(signal)))]
             with_ssid == IF IsNone(pushed.ssid) /\ IsSome(packet.ssid)
                          THEN [pushed EXCEPT !.ssid = packet.ssid] ELSE pushed
             with_sec == IF IsNone(with_ssid.security) /\ IsSome(packet.security)
                         THEN [with_ssid EXCEPT !.security = packet.security]
                         ELSE with_ssid
         IN  [m \in (DOMAIN mac_map) \cup {mac} |->
                 IF m = mac THEN with_sec ELSE mac_map[m]]

\* the body of `for packet in packets` on the map built so far
GroupPacketInto(mac_map, packet, track) ==
    IF IsNone(packet.source_address) THEN mac_map
    ELSE IF IsNone(packet.signal_strength) THEN mac_map
    ELSE LET mac == Unwrap(packet.source_address)
             signal == Unwrap(packet.signal_strength)
             pos == get_position_at(packet.timestamp, track)
         IN  IF IsNone(pos) THEN mac_map
             ELSE LET observation == Observation(Unwrap(pos), signal, rssi_to_distance(signal))
                      entry == IF mac \in DOMAIN mac_map THEN mac_map[mac]
                               ELSE NewAccessPoint(mac, packet)
                      pushed == [entry EXCEPT !.observations = Append(@, observation)]
                      with_ssid == IF IsNone(pushed.ssid) /\ IsSome(packet.ssid)
                                   THEN [pushed EXCEPT !.ssid = packet.ssid] ELSE pushed
                      with_sec == IF IsNone(with_ssid.security) /\ IsSome(packet.security)
                                  THEN [with_ssid EXCEPT !.security = packet.security]
                                  ELSE with_ssid
                  IN  [m \in (DOMAIN mac_map) \cup {mac} |->
                          IF m = mac THEN with_sec ELSE mac_map[m]]

RECURSIVE GroupFrom(_, _, _, _)
GroupFrom(mac_map, pkts, i, track) ==
    IF i > Len(pkts) THEN mac_map
    ELSE GroupFrom(GroupPacketInto(mac_map, pkts[i], track), pkts, i + 1, track)

group_packets_by_mac(pkts, track) == GroupFrom([m \in {} |-> 0], pkts, 1, track)

----------------------------------------------------------------------------
(* mac/mod.rs: bind_vendors_to_aps; hashcat.rs: bind_passwords_to_aps *)

\* mac-vendors.csv, as prefix -> vendor: one registered prefix
VendorCsv == [p \in { <<0, 17, 34>> } |-> "Acme"]

MacPrefix(mac) == << mac[1], mac[2], mac[3] >>

\* lookup: the vendor of every mac whose three-byte prefix is in the table
lookup(macs) ==
    [mac \in { m \in macs : MacPrefix(m) \in DOMAIN VendorCsv } |-> VendorCsv[MacPrefix(mac)]]

bind_vendors_to_aps(aps) ==
    LET vendor_map == lookup(DOMAIN aps)
    IN  [m \in DOMAIN aps |->
            IF m \in DOMAIN vendor_map THEN [aps[m] EXCEPT !.vendor = Some(vendor_map[m])]
            ELSE aps[m]]

APPassword(mac, ssid, password, security) ==
    [mac |-> mac, ssid |-> ssid, password |-> password, security |-> security]

\* mutant: the record's security is written whether or not one is set
BindPasswordOverwritesSecurity(ap, pwd) ==
    IF ap.mac # pwd.mac THEN ap
    ELSE IF IsNone(ap.ssid)
         THEN [ap EXCEPT !.ssid = Some(pwd.ssid),
                         !.password = Some(pwd.password),
                         !.security = Some(pwd.security)]
    ELSE IF Unwrap(ap.ssid) = pwd.ssid
         THEN [ap EXCEPT !.password = Some(pwd.password),
                         !.security = Some(pwd.security)]
    ELSE ap

\* mutant: the record's ssid is not compared with the one that is set
BindPasswordAnySsid(ap, pwd) ==
    IF ap.mac # pwd.mac THEN ap
    ELSE IF IsNone(ap.ssid)
         THEN [ap EXCEPT !.ssid = Some(pwd.ssid),
                         !.password = Some(pwd.password),
                         !.security = IF IsNone(@) THEN Some(pwd.security) ELSE @]
    ELSE [ap EXCEPT !.password = Some(pwd.password),
                    !.security = IF IsNone(@) THEN Some(pwd.security) ELSE @]

\* the body of `for pwd in &passwords` on one access point
BindPassword(ap, pwd) ==
    IF ap.mac # pwd.mac THEN ap
    ELSE IF IsNone(ap.ssid)
         THEN [ap EXCEPT !.ssid = Some(pwd.ssid),
                         !.password = Some(pwd.password),
                         !.security = IF IsNone(@) THEN Some(pwd.security) ELSE @]
    ELSE IF Unwrap(ap.ssid) = pwd.ssid
         THEN [ap EXCEPT !.password = Some(pwd.password),
                         !.security = IF IsNone(@) THEN Some(pwd.security) ELSE @]
    ELSE ap

RECURSIVE BindPasswordsFrom(_, _, _)
BindPasswordsFrom(ap, passwords, i) ==
    IF i > Len(passwords) THEN ap
    ELSE BindPasswordsFrom(BindPassword(ap, passwords[i]), passwords, i + 1)

bind_passwords_to_aps(aps, passwords) ==
    [m \in DOMAIN aps |-> BindPasswordsFrom(aps[m], passwords, 1)]

----------------------------------------------------------------------------
(* main.rs: the estimation loop *)

\* mutant: the method is chosen from the number of observations before the filter
EstimateByRawCount(ap) ==
    LET kept == filter_close_observations(ap.observations)
        filtered == [ap EXCEPT !.observations = kept]
    IN  CASE Len(ap.observations) = 0 -> filtered
          [] Len(ap.observations) = 1 ->
                [filtered EXCEPT !.estimated_position = Some(kept[1].position),
                                 !.position_method = Some("single")]
          [] Len(ap.observations) = 2 ->
                [filtered EXCEPT !.estimated_position = weighted_centroid(kept),
                                 !.position_method = Some("weighted_centroid")]
          [] OTHER ->
                [filtered EXCEPT !.estimated_position = trilateration(kept),
                                 !.position_method = Some("trilateration")]

\* the body of `for ap in access_points.iter_mut()`
\* mutant: the `1 =>` arm leaves the access point as it is
EstimateSingleUnset(ap) ==
    LET kept == filter_close_observations(ap.observations)
        filtered == [ap EXCEPT !.observations = kept]
    IN  CASE Len(kept) <= 1 -> filtered
          [] Len(kept) = 2 ->
                [filtered EXCEPT !.estimated_position = weighted_centroid(kept),
                                 !.position_method = Some("weighted_centroid")]
          [] OTHER ->
                [filtered EXCEPT !.estimated_position = trilateration(kept),
                                 !.position_method = Some("trilateration")]

Estimate(ap) ==
    LET kept == filter_close_observations(ap.observations)
        filtered == [ap EXCEPT !.observations = kept]
    IN  CASE Len(kept) = 0 -> filtered
          [] Len(kept) = 1 ->
                [filtered EXCEPT !.estimated_position = Some(kept[1].position),
                                 !.position_method = Some("single")]
          [] Len(kept) = 2 ->
                [filtered EXCEPT !.estimated_position = weighted_centroid(kept),
                                 !.position_method = Some("weighted_centroid")]
          [] OTHER ->
                [filtered EXCEPT !.estimated_position = trilateration(kept),
                                 !.position_method = Some("trilateration")]

----------------------------------------------------------------------------
(* main: the run, one step per packet aggregated, per enrichment stage and   *)
(* per access point estimated                                                *)

\* the most packets of a run
MaxPackets == 3

\* main.rs:68, one iteration of group_packets_by_mac's loop
GroupPacket(packet) ==
    /\ pc = "group"
    /\ Len(packets) < MaxPackets
    /\ packets' = Append(packets, packet)
    /\ access_points' = GroupPacketInto(access_points, packet, positions)
    /\ UNCHANGED <<pc, positions, todo, call>>

\* main.rs:68, mac_map.into_values().collect()
EndGroup ==
    /\ pc = "group"
    /\ pc' = "vendors"
    /\ UNCHANGED <<positions, packets, access_points, todo, call>>

\* main.rs:71
BindVendors ==
    /\ pc = "vendors"
    /\ access_points' = bind_vendors_to_aps(access_points)
    /\ pc' = "passwords"
    /\ UNCHANGED <<positions, packets, todo, call>>

\* main.rs:78-85 with hashcat's records `passwords`
BindPasswords(passwords) ==
    /\ pc = "passwords"
    /\ access_points' = bind_passwords_to_aps(access_points, passwords)
    /\ pc' = "estimate"
    /\ todo' = DOMAIN access_points
    /\ UNCHANGED <<positions, packets, call>>

\* main.rs:78 with --no-hashcat
SkipPasswords ==
    /\ pc = "passwords"
    /\ pc' = "estimate"
    /\ todo' = DOMAIN access_points
    /\ UNCHANGED <<positions, packets, access_points, call>>

\* main.rs:89-107, one iteration; the Vec's order is the HashMap's, which is any
EstimateAp(mac) ==
    /\ pc = "estimate"
    /\ mac \in todo
    /\ access_points' = [access_points EXCEPT ![mac] = Estimate(@)]
    /\ todo' = todo \ {mac}
    /\ UNCHANGED <<pc, positions, packets, call>>

\* main.rs:122, the loop is over
EndEstimate ==
    /\ pc = "estimate"
    /\ todo = {}
    /\ pc' = "done"
    /\ UNCHANGED <<positions, packets, access_points, todo, call>>

----------------------------------------------------------------------------
(* Harness of get_position_at: any track, sorted or not, any timestamp *)

TrackPoints == { <<0, 0>>, <<60, 60>>, <<60, 0>> }

FixSet == { Position(p[1], p[2], ts) : p \in TrackPoints, ts \in 0..MaxTime }

RECURSIVE SeqsUpTo(_, _)
SeqsUpTo(S, n) ==
    IF n = 0 THEN { << >> }
    ELSE LET shorter == SeqsUpTo(S, n - 1)
         IN  shorter \cup { Append(s, x) : s \in { t \in shorter : Len(t) = n - 1 }, x \in S }

NoAps == [m \in {} |-> 0]

InitTrack ==
    /\ pc = "call"
    /\ positions \in SeqsUpTo(FixSet, MaxTrackLen)
    /\ packets = << >>
    /\ access_points = NoAps
    /\ todo = {}
    /\ call = [fn |-> "get_position_at", done |-> FALSE]

CallGetPositionAt(t) ==
    /\ pc = "call"
    /\ call.fn = "get_position_at"
    /\ ~call.done
    /\ call' = [fn |-> "get_position_at", done |-> TRUE, timestamp |-> t,
                ret |-> get_position_at(t, positions)]
    /\ UNCHANGED <<pc, positions, packets, access_points, todo>>

NextTrack == \E t \in 0..(MaxTime + 1) : CallGetPositionAt(t)

SpecTrack == InitTrack /\ [][NextTrack]_vars

\* the consecutive pairs of the track that bracket t
Bracketing(track, t) ==
    { i \in 1..(Len(track) - 1) : track[i].timestamp <= t /\ t <= track[i + 1].timestamp }

SetMin(S) == CHOOSE x \in S : \A y \in S : x <= y

IsSortedTrack(track) ==
    \A i \in 1..(Len(track) - 1) : track[i].timestamp <= track[i + 1].timestamp

\* r lies on the segment p1-p2 at the fraction (t - t1) / (t2 - t1), at p1 when t1 = t2
OnSegment(r, p1, p2, t) ==
    IF p1.timestamp = p2.timestamp
    THEN r.latitude = p1.latitude /\ r.longitude = p1.longitude
    ELSE /\ (r.latitude - p1.latitude) * (p2.timestamp - p1.timestamp)
             = (p2.latitude - p1.latitude) * (t - p1.timestamp)
         /\ (r.longitude - p1.longitude) * (p2.timestamp - p1.timestamp)
             = (p2.longitude - p1.longitude) * (t - p1.timestamp)

(* C4: on a track of two or more fixes get_position_at interpolates linearly   *)
(* inside the first consecutive pair that brackets t and stamps the result    *)
(* with t; it returns None when no pair brackets t; on a sorted track it      *)
(* returns a position exactly when first.timestamp <= t <= last.timestamp.    *)
C4_Interpolation ==
    (call.fn = "get_position_at" /\ call.done /\ Len(positions) >= 2) =>
        LET t == call.timestamp
            B == Bracketing(positions, t)
        IN  /\ B = {} => IsNone(call.ret)
            /\ B # {} =>
                  /\ IsSome(call.ret)
                  /\ Unwrap(call.ret).timestamp = t
                  /\ OnSegment(Unwrap(call.ret), positions[SetMin(B)],
                               positions[SetMin(B) + 1], t)
            /\ IsSortedTrack(positions) =>
                  (IsSome(call.ret) <=>
                     (positions[1].timestamp <= t /\ t <= positions[Len(positions)].timestamp))

\* an unsorted three-fix track whose second pair is the first to bracket t = 1:
\* half way between (0,0)@0 and (60,60)@2
C4_Witness ==
    /\ call.fn = "get_position_at" /\ call.done
    /\ positions = << Position(60, 0, 3), Position(0, 0, 0), Position(60, 60, 2) >>
    /\ Bracketing(positions, call.timestamp) = {2}
    /\ call.timestamp = 1
    /\ call.ret = Some(Position(30, 30, 1))

(* C5: get_position_at returns None on an empty track, and on a track of one  *)
(* fix it returns that fix unchanged whatever timestamp is requested.         *)
C5_EmptyAndSingle ==
    (call.fn = "get_position_at" /\ call.done) =>
        /\ Len(positions) = 0 => call.ret = None
        /\ Len(positions) = 1 => call.ret = Some(positions[1])

\* a lone fix at time 2 asked for at time 0
C5_Witness ==
    /\ call.fn = "get_position_at" /\ call.done
    /\ Len(positions) = 1
    /\ positions[1].timestamp = 2
    /\ call.timestamp = 0
    /\ call.ret = Some(positions[1])

----------------------------------------------------------------------------
(* Harness of filter_close_observations: any list of observations taken at   *)
(* four points, two of them 44 and 45 units (4.90 m and 5.01 m) from the     *)
(* first.                                                                    *)

\* the longest observation list of the harness
MaxObs == 3

ObsPoints == { <<0, 0>>, <<44, 0>>, <<45, 0>>, <<60, 60>> }

Signals == { -40, -50, -60 }

ObsSet ==
    { Observation(Position(p[1], p[2], 0), sig, rssi_to_distance(sig)) :
        p \in ObsPoints, sig \in Signals }

InitFilter ==
    /\ pc = "call"
    /\ positions = << >>
    /\ packets = << >>
    /\ access_points = NoAps
    /\ todo = {}
    /\ \E obs \in SeqsUpTo(ObsSet, MaxObs) :
          call = [fn |-> "filter_close_observations", done |-> FALSE, observations |-> obs]

CallFilterCloseObservations ==
    /\ pc = "call"
    /\ call.fn = "filter_close_observations"
    /\ ~call.done
    /\ call' = [call EXCEPT !.done = TRUE] @@
               [ret |-> filter_close_observations(call.observations)]
    /\ UNCHANGED <<pc, positions, packets, access_points, todo>>

\* the filter called once more, on the list the first call left
CallFilterCloseObservationsAgain ==
    /\ pc = "call"
    /\ call.fn = "filter_close_observations"
    /\ call.done
    /\ "again" \notin DOMAIN call
    /\ call' = call @@ [again |-> filter_close_observations(call.ret)]
    /\ UNCHANGED <<pc, positions, packets, access_points, todo>>

NextFilter == CallFilterCloseObservations \/ CallFilterCloseObservationsAgain

SpecFilter == InitFilter /\ [][NextFilter]_vars

ObsDistance(a, b) ==
    haversine_distance(a.position.latitude, a.position.longitude,
                       b.position.latitude, b.position.longitude)

SeqRange(q) == { q[i] : i \in 1..Len(q) }

MaxSignal(observations) ==
    CHOOSE m \in { o.signal_strength : o \in SeqRange(observations) } :
        \A o \in SeqRange(observations) : o.signal_strength <= m

(* C1: filter_close_observations returns a list of 0 or 1 observations as it *)
(* is; of a longer list it keeps observations of the list that are pairwise  *)
(* at least 5 m apart, one of them with the strongest signal of the list.    *)
C1_FilterSeparation ==
    (call.fn = "filter_close_observations" /\ call.done) =>
        LET in  == call.observations
            out == call.ret
        IN  /\ Len(in) <= 1 => out = in
            /\ Len(in) >= 2 =>
                  /\ SeqRange(out) \subseteq SeqRange(in)
                  /\ \A i, j \in 1..Len(out) :
                        i # j => ObsDistance(out[i], out[j]) >= MIN_DISTANCE_BETWEEN_OBS
                  /\ \E k \in 1..Len(out) : out[k].signal_strength = MaxSignal(in)

\* three observations, the weakest first; the one 4.90 m from the strongest is
\* dropped and the one 5.01 m from it is kept
C1_Witness ==
    /\ call.fn = "filter_close_observations" /\ call.done
    /\ Len(call.observations) = 3
    /\ call.observations[1].signal_strength = -60
    /\ call.observations[1].position = Position(44, 0, 0)
    /\ Len(call.ret) = 2
    /\ call.ret[1].signal_strength = -40 /\ call.ret[1].position = Position(0, 0, 0)
    /\ call.ret[2].signal_strength = -50 /\ call.ret[2].position = Position(45, 0, 0)

(* C22: every observation of the input that filter_close_observations does   *)
(* not keep lies less than 5 m from a kept observation whose signal is at    *)
(* least as strong; the kept list is in order of non-increasing signal; and  *)
(* the filter applied to the kept list returns it unchanged.                 *)
C22_DropsOnlyRedundant ==
    (call.fn = "filter_close_observations" /\ call.done) =>
        LET in  == call.observations
            out == call.ret
        IN  /\ \A i \in 1..Len(in) :
                  in[i] \notin SeqRange(out) =>
                      \E k \in 1..Len(out) :
                          /\ ObsDistance(in[i], out[k]) < MIN_DISTANCE_BETWEEN_OBS
                          /\ out[k].signal_strength >= in[i].signal_strength
            /\ \A k \in 1..(Len(out) - 1) :
                  out[k].signal_strength >= out[k + 1].signal_strength
            /\ "again" \in DOMAIN call => call.again = out

\* the first observation is dropped, 0.1 m from a stronger one that is kept; the
\* second call was made on the two that were kept
C22_Witness ==
    /\ call.fn = "filter_close_observations" /\ call.done
    /\ Len(call.observations) = 3
    /\ call.observations[1] \notin SeqRange(call.ret)
    /\ call.observations[1].position = Position(44, 0, 0)
    /\ call.observations[1].signal_strength = -50
    /\ Len(call.ret) = 2
    /\ call.ret[1].signal_strength = -40 /\ call.ret[1].position = Position(45, 0, 0)
    /\ call.ret[2].signal_strength = -50 /\ call.ret[2].position = Position(0, 0, 0)
    /\ "again" \in DOMAIN call
    /\ call.again = call.ret

----------------------------------------------------------------------------
(* The run on packets that differ in time, signal and address: the walk goes *)
(* (0,0)@0 -> (60,0)@2 -> (60,60)@3, so that the positions at t = 0, 2, 3    *)
(* are 6.7 m or more apart and the one at t = 1 is 3.3 m from two of them.   *)

Mac1 == <<0, 17, 34, 51, 68, 85>>

Mac2 == <<2, 0, 0, 0, 0, 1>>

WalkTracks ==
    { << Position(0, 0, 0), Position(60, 0, 2), Position(60, 60, 3) >>,
      \* no fix before t = 1 nor after t = 2
      << Position(0, 0, 1), Position(60, 60, 2) >> }

WalkPackets ==
    { Packet(x[1], Some(Mac1), None, Some(x[2]), None, None) :
        x \in { <<0, -40>>, <<0, -50>>, <<1, -50>>, <<1, -60>>,
                <<2, -50>>, <<2, -40>>, <<3, -60>>, <<3, -40>> } }
    \cup { Packet(0, Some(Mac2), None, Some(-50), None, None),
           Packet(2, Some(Mac1), None, None, None, None),
           Packet(2, None, None, Some(-40), None, None) }

WalkPasswords == { << APPassword(Mac1, "home", "secret", "WPA2") >> }

InitWalk ==
    /\ pc = "group"
    /\ positions \in WalkTracks
    /\ packets = << >>
    /\ access_points = NoAps
    /\ todo = {}
    /\ call = [fn |-> "main", done |-> FALSE]

NextWalk ==
    \/ \E packet \in WalkPackets : GroupPacket(packet)
    \/ EndGroup
    \/ BindVendors
    \/ \E passwords \in WalkPasswords : BindPasswords(passwords)
    \/ SkipPasswords
    \/ \E mac \in todo : EstimateAp(mac)
    \/ EndEstimate

SpecWalk == InitWalk /\ [][NextWalk]_vars

Estimated(mac) == pc \in {"estimate", "done"} /\ mac \in DOMAIN access_points /\ mac \notin todo

(* C2: once the estimation loop has visited an access point, its method is   *)
(* the one of the number of observations left by the deduplication: none     *)
(* for 0, "single" with that observation's position as it is for 1,          *)
(* "weighted_centroid" for 2, "trilateration" for 3 or more.                 *)
C2_MethodByCount ==
    \A mac \in DOMAIN access_points :
        Estimated(mac) =>
            LET ap == access_points[mac]
                n  == Len(ap.observations)
            IN  /\ n = 0 => ap.estimated_position = None /\ ap.position_method = None
                /\ n = 1 => /\ ap.position_method = Some("single")
                            /\ ap.estimated_position = Some(ap.observations[1].position)
                /\ n = 2 => ap.position_method = Some("weighted_centroid")
                /\ n >= 3 => ap.position_method = Some("trilateration")

\* three packets of one access point, of which the deduplication left two
C2_Witness ==
    /\ pc = "done"
    /\ Len(packets) = 3
    /\ Mac1 \in DOMAIN access_points
    /\ Len(group_packets_by_mac(packets, positions)[Mac1].observations) = 3
    /\ Len(access_points[Mac1].observations) = 2
    /\ access_points[Mac1].position_method = Some("weighted_centroid")

\* the observations aggregation made of the packets read so far, before any filter
RawObservations(mac) == group_packets_by_mac(packets, positions)[mac].observations

\* three observations with the signals -40, -50 and -60 dBm
ThreeSignals(raw) ==
    /\ Len(raw) = 3
    /\ \A sig \in {-40, -50, -60} : \E i \in 1..3 : raw[i].signal_strength = sig

DistinctPlaces(raw) ==
    \A i, j \in 1..Len(raw) :
        i # j => \/ raw[i].position.latitude # raw[j].position.latitude
                 \/ raw[i].position.longitude # raw[j].position.longitude

FarApart(raw) ==
    \A i, j \in 1..Len(raw) :
        i # j => ObsDistance(raw[i], raw[j]) >= MIN_DISTANCE_BETWEEN_OBS

Trilaterated(mac) ==
    /\ IsSome(access_points[mac].estimated_position)
    /\ access_points[mac].position_method = Some("trilateration")

(* C3 as claimed: at the end of the run an access point observed at three    *)
(* distinct positions with the signals -40, -50 and -60 dBm has a position   *)
(* estimate made by trilateration.                                           *)
C3_AsClaimed ==
    pc = "done" =>
        \A mac \in DOMAIN access_points :
            (ThreeSignals(RawObservations(mac)) /\ DistinctPlaces(RawObservations(mac)))
                => Trilaterated(mac)

(* C3, amended: at the end of the run an access point observed at three      *)
(* positions that are pairwise at least 5 m apart, with the signals -40, -50 *)
(* and -60 dBm, has a position estimate made by trilateration.               *)
C3_ThreeFarApart ==
    pc = "done" =>
        \A mac \in DOMAIN access_points :
            (ThreeSignals(RawObservations(mac)) /\ FarApart(RawObservations(mac)))
                => Trilaterated(mac)

\* -40 dBm at (0,0), -50 dBm at (60,0), -60 dBm at (60,60), all three kept
C3_Witness ==
    /\ pc = "done"
    /\ Mac1 \in DOMAIN access_points
    /\ ThreeSignals(RawObservations(Mac1))
    /\ FarApart(RawObservations(Mac1))
    /\ Len(access_points[Mac1].observations) = 3
    /\ Trilaterated(Mac1)

(* C21: every access point of the map has at least one observation, before  *)
(* and after the deduplication, which leaves at least one of a non-empty     *)
(* list; estimated_position and position_method are both set or both unset   *)
(* in every state of the run, both set once the estimation loop has visited  *)
(* the access point, and so for every access point when the loop is over.    *)
C21_PositionAndMethod ==
    \A mac \in DOMAIN access_points :
        LET ap == access_points[mac]
        IN  /\ Len(ap.observations) >= 1
            /\ filter_close_observations(ap.observations) # << >>
            /\ IsSome(ap.estimated_position) <=> IsSome(ap.position_method)
            /\ Estimated(mac) => IsSome(ap.estimated_position) /\ IsSome(ap.position_method)
            /\ pc = "done" => Estimated(mac)
            /\ pc \in {"group", "vendors", "passwords"} =>
                  IsNone(ap.estimated_position) /\ IsNone(ap.position_method)

\* the run is over with two access points: one whose two observations, 3.3 m
\* apart, were cut down to one, and one with a single observation
C21_Witness ==
    /\ pc = "done"
    /\ DOMAIN access_points = {Mac1, Mac2}
    /\ Len(group_packets_by_mac(packets, positions)[Mac1].observations) = 2
    /\ Len(access_points[Mac1].observations) = 1
    /\ access_points[Mac1].position_method = Some("single")
    /\ IsSome(access_points[Mac1].estimated_position)
    /\ access_points[Mac2].position_method = Some("single")
    /\ IsSome(access_points[Mac2].estimated_position)

\* the estimation loop is half way: one access point visited and set, the other
\* not yet visited and unset
C21_WitnessHalfWay ==
    /\ pc = "estimate"
    /\ DOMAIN access_points = {Mac1, Mac2}
    /\ todo = {Mac2}
    /\ IsSome(access_points[Mac1].estimated_position)
    /\ IsNone(access_points[Mac2].estimated_position)
    /\ IsNone(access_points[Mac2].position_method)

----------------------------------------------------------------------------
(* Harness of parse_wifi_packet: frames of every type, and beacons and probe *)
(* responses over lists of tagged elements, well formed and not.             *)

\* the most tagged elements of a beacon body
MaxElems == 2

Addr1 == <<161, 1, 2, 3, 4, 5>>

Addr2 == <<162, 1, 2, 3, 4, 5>>

Addr3 == <<163, 1, 2, 3, 4, 5>>

\* frame control, duration, the three addresses, sequence control: 24 bytes
WlanHeader(fc0, fc1) == <<fc0, fc1, 0, 0>> \o Addr1 \o Addr2 \o Addr3 \o <<0, 0>>

\* timestamp (8), beacon interval (2), capability field (2)
FixedParams(caps) == <<0, 0, 0, 0, 0, 0, 0, 0, 100, 0>> \o caps

RECURSIVE Concat(_)
Concat(seqs) == IF seqs = << >> THEN << >> ELSE Head(seqs) \o Concat(Tail(seqs))

RECURSIVE Repeat(_, _)
Repeat(seq, n) == IF n = 0 THEN << >> ELSE seq \o Repeat(seq, n - 1)

Zeros(n) == Repeat(<<0>>, n)

RadiotapChoices ==
    { None,
      Some([length |-> 8, antenna_signal |-> Some(-50), channel_freq |-> Some(2437)]),
      Some([length |-> 8, antenna_signal |-> None, channel_freq |-> Some(2400)]),
      Some([length |-> 12, antenna_signal |-> Some(-70), channel_freq |-> None]) }

\* version 1, group CCMP, `pairwise` CCMP suites, then the AKM count and one suite
\* for each of akm_types
RsnElement(pairwise, akm_count, akm_types) ==
    LET akms == Concat([i \in 1..Len(akm_types) |-> <<0, 15, 172, akm_types[i]>>])
        payload == <<1, 0, 0, 15, 172, 4, pairwise, 0>> \o Repeat(<<0, 15, 172, 4>>, pairwise)
                   \o <<akm_count, 0>> \o akms
    IN  <<48, Len(payload)>> \o payload

ElementPool ==
    { <<0, 1, 97>>,                       \* SSID "a"
      <<0, 0>>,                           \* SSID of length 0
      <<0, 1, 255>>,                      \* SSID that is not UTF-8
      <<0, 2, 195, 169>>,                 \* SSID "e-acute", two bytes of UTF-8
      <<0, 3, 98>>,                       \* SSID declaring 3 bytes, 1 given
      <<1, 1, 130>>,                      \* supported rates
      RsnElement(1, 1, <<2>>),            \* RSN, PSK
      RsnElement(0, 1, <<8>>),            \* RSN, SAE
      RsnElement(1, 2, <<2, 8>>),         \* RSN, PSK and SAE
      RsnElement(1, 1, <<1>>),            \* RSN, 802.1X
      RsnElement(1, 2, <<8>>),            \* RSN, two suites declared, one given
      <<48, 2, 1, 0>>,                    \* RSN, version only
      <<48, 8, 1, 0, 0, 15, 172, 4, 3, 0>>,     \* RSN, 3 pairwise suites declared, none given
      <<48, 8, 1, 0, 0, 15, 172, 4, 0, 0>>,     \* RSN, no pairwise suite, no AKM count
      <<221, 8, 0, 80, 242, 1, 1, 0, 0, 80>>,   \* vendor, WPA
      <<221, 6, 0, 80, 242, 1, 1, 0>>,          \* vendor, WPA, version only
      <<221, 8, 0, 80, 242, 2, 1, 1, 0, 0>> }   \* vendor, WMM

\* privacy set; privacy clear; 0x1000, privacy clear with bit 4 of the high byte set
CapsChoices == { <<17, 0>>, <<1, 0>>, <<0, 16>> }

\* every type, seven subtypes, the four to-DS/from-DS pairs, with and without a body
FramesByType ==
    { WlanHeader(type * 4 + subtype * 16, ds) \o body :
        type \in 0..3, subtype \in {0, 1, 3, 4, 5, 8, 12}, ds \in 0..3,
        body \in { << >>, FixedParams(<<17, 0>>) \o <<0, 1, 97>> } }

\* beacons (0x80) and probe responses (0x50) over element lists, and bodies cut short
Beacons ==
    { WlanHeader(fc0, 0) \o FixedParams(caps) \o Concat(elems) :
        fc0 \in {128, 80}, caps \in CapsChoices, elems \in SeqsUpTo(ElementPool, MaxElems) }
    \cup { WlanHeader(128, 0) \o SubSeq(FixedParams(<<17, 0>>), 1, n) : n \in {6, 11} }
    \cup { SubSeq(WlanHeader(128, 0), 1, 23) }

\* the radiotap variants are run over the frames of 24 and 39 bytes; longer and cut
\* frames come with the first complete header
InitDecode ==
    /\ pc = "call"
    /\ positions = << >>
    /\ packets = << >>
    /\ access_points = NoAps
    /\ todo = {}
    /\ \E radiotap \in RadiotapChoices, wlan \in FramesByType \cup Beacons :
          /\ Len(wlan) \notin {24, 39} => radiotap = Some([length |-> 8,
                 antenna_signal |-> Some(-50), channel_freq |-> Some(2437)])
          /\ call = [fn |-> "parse_wifi_packet", done |-> FALSE,
                     radiotap |-> radiotap, timestamp |-> 1,
                     data |-> Zeros(IF IsSome(radiotap) THEN Unwrap(radiotap).length ELSE 8)
                              \o wlan]

CallParseWifiPacket ==
    /\ pc = "call"
    /\ call.fn = "parse_wifi_packet"
    /\ ~call.done
    /\ call' = [call EXCEPT !.done = TRUE] @@
               [ret |-> parse_wifi_packet(call.data, call.radiotap, call.timestamp),
                trace |-> parse_wifi_packet_trace(call.data, call.radiotap)]
    /\ UNCHANGED <<pc, positions, packets, access_points, todo>>

NextDecode == CallParseWifiPacket

SpecDecode == InitDecode /\ [][NextDecode]_vars

\* a finished call on a buffer that holds the radiotap header and 24 bytes more
Decoded ==
    /\ call.fn = "parse_wifi_packet" /\ call.done
    /\ IsSome(call.radiotap)
    /\ Len(call.data) >= Unwrap(call.radiotap).length + 24

\* the 802.11 frame of the call
Wlan == SubSeq(call.data, Unwrap(call.radiotap).length + 1, Len(call.data))

FrameType == (Wlan[1] \div 4) % 4

FrameSubtype == Wlan[1] \div 16

ToDs == Wlan[2] % 2

FromDs == (Wlan[2] \div 2) % 2

\* the call returned a packet whose address is bytes [from, to) of the frame
AddressIs(from, to) ==
    /\ IsSome(call.ret)
    /\ Unwrap(call.ret).source_address = Some(SubSeq(Wlan, from + 1, to))

(* C9: the AP address is bytes [10,16) of the frame for beacons, probe        *)
(* responses, association and reassociation responses; bytes [4,10), [10,16) *)
(* or [16,22) for data frames with (to-DS, from-DS) = (1,0), (0,1) or (0,0); *)
(* every other management subtype, data frames with (1,1) and every other    *)
(* frame type give no packet.                                                *)
C9_AddressByFrameType ==
    Decoded =>
        /\ (FrameType = 0 /\ FrameSubtype \in {8, 5, 1, 3}) => AddressIs(10, 16)
        /\ (FrameType = 0 /\ FrameSubtype \notin {8, 5, 1, 3}) => call.ret = None
        /\ (FrameType = 2 /\ ToDs = 1 /\ FromDs = 0) => AddressIs(4, 10)
        /\ (FrameType = 2 /\ ToDs = 0 /\ FromDs = 1) => AddressIs(10, 16)
        /\ (FrameType = 2 /\ ToDs = 0 /\ FromDs = 0) => AddressIs(16, 22)
        /\ (FrameType = 2 /\ ToDs = 1 /\ FromDs = 1) => call.ret = None
        /\ FrameType \in {1, 3} => call.ret = None

\* a data frame to the distribution system: the address is the first one
C9_Witness ==
    /\ Decoded
    /\ FrameType = 2 /\ ToDs = 1 /\ FromDs = 0
    /\ IsSome(call.ret)
    /\ Unwrap(call.ret).source_address = Some(Addr1)

\* a finished call on a beacon or probe response of 36 bytes or more
Beacon36 ==
    /\ Decoded
    /\ FrameType = 0 /\ FrameSubtype \in {8, 5}
    /\ Len(Wlan) >= 36

\* the frame body, from byte 24 of the frame on
Body == SubSeq(Wlan, 25, Len(Wlan))

\* bit 4 of the little-endian capability field at bytes 34 and 35 of the frame
Privacy == (Wlan[35] \div 16) % 2 = 1

\* the tagged elements that lie whole inside the body, in order, from byte 12 of it
\* up to the first one that does not fit
RECURSIVE ElementsFrom(_, _)
ElementsFrom(body, start) ==
    IF start + 1 > Len(body) THEN << >>
    ELSE IF start + 1 + body[start + 1] > Len(body) THEN << >>
    ELSE << [tag |-> body[start], value |-> SubSeq(body, start + 2, start + 1 + body[start + 1])] >>
         \o ElementsFrom(body, start + 2 + body[start + 1])

Elements == ElementsFrom(Body, 13)

\* the last bytes of the AKM suites that lie whole inside an RSN element's value:
\* version (2), group cipher (4), pairwise count (2) and suites, AKM count (2) and suites
AkmTypes(value) ==
    IF Len(value) < 8 THEN {}
    ELSE LET akm_at == 8 + 4 * (value[7] + 256 * value[8])
         IN  IF Len(value) < akm_at + 2 THEN {}
             ELSE { value[akm_at + 2 + 4 * k] :
                      k \in { j \in 1..Len(value) :
                                /\ j <= value[akm_at + 1] + 256 * value[akm_at + 2]
                                /\ akm_at + 2 + 4 * j <= Len(value) } }

HasRsnElement == \E i \in 1..Len(Elements) : Elements[i].tag = 48

HasAkm(type) ==
    \E i \in 1..Len(Elements) : Elements[i].tag = 48 /\ type \in AkmTypes(Elements[i].value)

\* a vendor element whose value starts with the WPA OUI 00:50:F2 and type 1
IsWpaVendor(e) ==
    /\ e.tag = 221
    /\ Len(e.value) >= 4
    /\ SubSeq(e.value, 1, 4) = <<0, 80, 242, 1>>

\* the marker as the classifier raises it: on such elements of 8 bytes or more
WpaFlagRaised ==
    \E i \in 1..Len(Elements) : IsWpaVendor(Elements[i]) /\ Len(Elements[i].value) >= 8

Security == Unwrap(call.ret).security

(* C6: the classification is Open when the privacy bit is clear, whatever    *)
(* the elements; with the bit set it is WPA2WPA3 when an RSN element is      *)
(* there and AKM suites ending in 2 (PSK) and in 8 (SAE) were found, WPA3    *)
(* with SAE only, WPA2 for any other RSN, and WPA when there is no RSN       *)
(* element and the vendor WPA flag was raised; an RSN element wins over the  *)
(* vendor flag.                                                              *)
C6_DecisionTable ==
    Beacon36 =>
        /\ ~Privacy => Security = Some("Open")
        /\ (Privacy /\ HasRsnElement /\ HasAkm(2) /\ HasAkm(8)) => Security = Some("WPA2WPA3")
        /\ (Privacy /\ HasRsnElement /\ HasAkm(8) /\ ~HasAkm(2)) => Security = Some("WPA3")
        /\ (Privacy /\ HasRsnElement /\ ~HasAkm(8)) => Security = Some("WPA2")
        /\ (Privacy /\ ~HasRsnElement /\ WpaFlagRaised) => Security = Some("WPA")

\* a vendor WPA element followed by an RSN element with a PSK and an SAE suite
C6_Witness ==
    /\ Beacon36 /\ Privacy
    /\ Len(Elements) = 2
    /\ IsWpaVendor(Elements[1]) /\ WpaFlagRaised
    /\ Elements[2].tag = 48 /\ AkmTypes(Elements[2].value) = {2, 8}
    /\ Security = Some("WPA2WPA3")

(* C7: with the privacy bit set, a body in which no RSN element (tag 48) and *)
(* no vendor WPA marker is found is classified WEP.                          *)
C7_PrivacyAloneIsWep ==
    (/\ Beacon36 /\ Privacy
     /\ ~HasRsnElement
     /\ ~\E i \in 1..Len(Elements) : IsWpaVendor(Elements[i]))
        => Security = Some("WEP")

\* privacy set, an SSID and a vendor element that is not WPA
C7_Witness ==
    /\ Beacon36 /\ Privacy
    /\ Len(Elements) = 2
    /\ Elements[1].tag = 0
    /\ Elements[2].tag = 221
    /\ Security = Some("WEP")

(* C8 as claimed: with the privacy bit set and no RSN element, a tag-221     *)
(* element that fits in the buffer and whose first 4 payload bytes are       *)
(* 00 50 F2 01 makes the classification WPA.                                 *)
C8_AsClaimed ==
    (/\ Beacon36 /\ Privacy
     /\ ~HasRsnElement
     /\ \E i \in 1..Len(Elements) : IsWpaVendor(Elements[i]))
        => Security = Some("WPA")

\* the SSID elements of one byte or more
NonEmptySsids == { i \in 1..Len(Elements) : Elements[i].tag = 0 /\ Len(Elements[i].value) > 0 }

\* those of them that are UTF-8
DecodableSsids == { i \in NonEmptySsids : Utf8Valid(Elements[i].value) }

(* C10 as claimed: the ssid of a beacon or probe response of 36 bytes or     *)
(* more is the value of the first SSID element that is non-empty and UTF-8,  *)
(* and is absent only when there is none.                                    *)
C10_AsClaimed ==
    Beacon36 =>
        IF DecodableSsids = {} THEN Unwrap(call.ret).ssid = None
        ELSE Unwrap(call.ret).ssid = Some(Elements[SetMin(DecodableSsids)].value)

(* C10, amended: the ssid is the value of the first non-empty SSID element   *)
(* when that value is UTF-8; it is absent when there is no non-empty SSID    *)
(* element and when the first one is not UTF-8, whatever follows it.         *)
C10_FirstNonEmptySsid ==
    Beacon36 =>
        IF NonEmptySsids = {} THEN Unwrap(call.ret).ssid = None
        ELSE LET first == Elements[SetMin(NonEmptySsids)].value
             IN  Unwrap(call.ret).ssid = IF Utf8Valid(first) THEN Some(first) ELSE None

\* an empty SSID element, then "e-acute": the empty one is passed over
C10_Witness ==
    /\ Beacon36
    /\ Len(Elements) = 2
    /\ Elements[1] = [tag |-> 0, value |-> << >>]
    /\ Elements[2] = [tag |-> 0, value |-> <<195, 169>>]
    /\ Unwrap(call.ret).ssid = Some(<<195, 169>>)

\* where the value of an RSN element falls short of what it declares: "prefix"
\* (under the 8 bytes of version, group cipher and pairwise count), "pairwise"
\* (the declared pairwise suites are not all there), "akm_count" (they are, the
\* two bytes of the AKM count are not), "akm_suite" (fewer whole AKM suites than
\* the count says), or "none"
Shortfall(value) ==
    LET n == Len(value)
        pairwise == value[7] + 256 * value[8]
        akm_count == value[8 + 4 * pairwise + 1] + 256 * value[8 + 4 * pairwise + 2]
    IN  IF n < 8 THEN "prefix"
        ELSE IF n < 8 + 4 * pairwise THEN "pairwise"
        ELSE IF n < 8 + 4 * pairwise + 2 THEN "akm_count"
        ELSE IF n < 8 + 4 * pairwise + 2 + 4 * akm_count THEN "akm_suite"
        ELSE "none"

(* C17: with the privacy bit set, a tag-48 element that fits in the buffer   *)
(* makes the classification WPA2, WPA3 or WPA2WPA3 whatever its value: a     *)
(* value too short for the prefix, the pairwise suites, the AKM count or a   *)
(* declared AKM suite neither fails the call nor loses the RSN element, and  *)
(* the AKM suites that lie whole inside the value count: SAE among them      *)
(* gives WPA3 or, with PSK among them too, WPA2WPA3.                         *)
C17_RsnShortfallKept ==
    (Beacon36 /\ Privacy /\ HasRsnElement) =>
        /\ IsSome(call.ret)
        /\ Security \in {Some("WPA2"), Some("WPA3"), Some("WPA2WPA3")}
        /\ HasAkm(8) <=> Security \in {Some("WPA3"), Some("WPA2WPA3")}
        /\ (HasAkm(2) /\ HasAkm(8)) <=> Security = Some("WPA2WPA3")

\* an RSN element cut after the version, then one declaring two AKM suites of
\* which only the first, SAE, is there
C17_Witness ==
    /\ Beacon36 /\ Privacy
    /\ Len(Elements) = 2
    /\ Elements[1].tag = 48 /\ Shortfall(Elements[1].value) = "prefix"
    /\ Elements[2].tag = 48 /\ Shortfall(Elements[2].value) = "akm_suite"
    /\ Security = Some("WPA3")

\* the pairwise suites or the AKM count missing: still WPA2
C17_WitnessNoAkmCount ==
    /\ Beacon36 /\ Privacy
    /\ Len(Elements) = 2
    /\ Elements[1].tag = 48 /\ Shortfall(Elements[1].value) = "pairwise"
    /\ Elements[2].tag = 48 /\ Shortfall(Elements[2].value) = "akm_count"
    /\ Security = Some("WPA2")

\* Rust's bounds check of an index or range expression
InBounds(a) == 0 <= a.at /\ a.at <= a.to /\ a.to <= a.len

StrictlyIncreasing(cursors) == \A i \in 1..(Len(cursors) - 1) : cursors[i] < cursors[i + 1]

\* the element that starts at byte offset of the body declares more than is left
Overruns(body, offset) == offset + 2 + body[offset + 2] > Len(body)

\* a walk with these cursors went through the body: every cursor leaves room for
\* tag and length, each lies after the one before it, and an element that
\* overruns the body is the last one looked at
WalkedInside(cursors, body) ==
    /\ StrictlyIncreasing(cursors)
    /\ Len(cursors) <= Len(body) \div 2
    /\ \A i \in 1..Len(cursors) :
          /\ cursors[i] >= 12 /\ cursors[i] + 2 <= Len(body)
          /\ Overruns(body, cursors[i]) => i = Len(cursors)

(* C18: when the radiotap header parses, parse_wifi_packet, the SSID walk    *)
(* and the security walk finish with every index and range expression        *)
(* inside the slice it is applied to; the cursor of each walk strictly       *)
(* increases, and an element that declares more bytes than the body has left *)
(* ends the walk: the call returns a packet, with the ssid and security that *)
(* the body cut in front of that element gives.                              *)
C18_ReadsInsideBuffer ==
    (call.fn = "parse_wifi_packet" /\ call.done /\ IsSome(call.radiotap)) =>
        /\ \A a \in call.trace.accesses \cup call.trace.ssid.accesses
                    \cup call.trace.security.accesses : InBounds(a)
        /\ Beacon36 =>
              /\ WalkedInside(call.trace.ssid.cursors, Body)
              /\ WalkedInside(call.trace.security.cursors, Body)
              /\ Privacy => call.trace.security.cursors # << >> \/ Len(Body) < 14
              /\ \A c \in 12..(Len(Body) - 2) :
                    (/\ call.trace.security.cursors # << >>
                     /\ c = call.trace.security.cursors[Len(call.trace.security.cursors)]
                     /\ Overruns(Body, c))
                    => /\ IsSome(call.ret)
                       /\ Security = Some(parse_wifi_security(SubSeq(Body, 1, c),
                                                              Wlan[35] + 256 * Wlan[36]))
              /\ \A c \in 12..(Len(Body) - 2) :
                    (/\ call.trace.ssid.cursors # << >>
                     /\ c = call.trace.ssid.cursors[Len(call.trace.ssid.cursors)]
                     /\ Overruns(Body, c))
                    => /\ IsSome(call.ret)
                       /\ Unwrap(call.ret).ssid
                             = parse_management_frame_body(SubSeq(Body, 1, c))

\* an RSN element, then an element declaring 3 bytes where 1 is left: both walks
\* look at the two elements and stop, and the packet is WPA2 without ssid
C18_Witness ==
    /\ Beacon36 /\ Privacy
    /\ Len(Elements) = 1 /\ Elements[1].tag = 48
    /\ Len(call.trace.security.cursors) = 2
    /\ call.trace.ssid.cursors = call.trace.security.cursors
    /\ Overruns(Body, call.trace.security.cursors[2])
    /\ Security = Some("WPA2")
    /\ Unwrap(call.ret).ssid = None

----------------------------------------------------------------------------
(* The run on packets that differ in what they carry (ssid, channel,         *)
(* security) and on hashcat records that agree and disagree with them.  The  *)
(* records of a run are what get_passwords returns; they are fixed from the  *)
(* start and kept in call.passwords.                                         *)

\* the most records get_passwords returns
MaxRecords == 2

EnrichTrack == << Position(0, 0, 0), Position(60, 0, 2), Position(60, 60, 3) >>

EnrichPackets ==
    { Packet(0, Some(Mac1), None, Some(-40), None, None),
      Packet(2, Some(Mac1), Some("home"), Some(-50), Some(6), Some("WPA2")),
      Packet(3, Some(Mac1), Some("cafe"), Some(-60), Some(11), Some("Open")),
      Packet(0, Some(Mac2), Some("cafe"), Some(-50), Some(1), None),
      \* no signal, no address, no position at t = 5
      Packet(2, Some(Mac1), Some("home"), None, Some(6), Some("WPA2")),
      Packet(2, None, Some("home"), Some(-40), Some(6), Some("WPA2")),
      Packet(5, Some(Mac2), Some("home"), Some(-40), Some(6), Some("WPA3")) }

\* the security of a record is looked up by its mac: one per mac
EnrichRecords ==
    { APPassword(Mac1, "home", "secret", "WPA2"),
      APPassword(Mac1, "home", "changed", "WPA2"),
      APPassword(Mac1, "cafe", "latte", "WPA2"),
      APPassword(Mac2, "cafe", "welcome", "WPA3") }

\* get_passwords takes a hashcat line once (seen_hashes): no record twice
RecordSeqs ==
    { q \in SeqsUpTo(EnrichRecords, MaxRecords) :
        \A i, j \in 1..Len(q) : i # j => q[i] # q[j] }

InitEnrich ==
    /\ pc = "group"
    /\ positions = EnrichTrack
    /\ packets = << >>
    /\ access_points = NoAps
    /\ todo = {}
    /\ \E passwords \in RecordSeqs :
          call = [fn |-> "main", done |-> FALSE, passwords |-> passwords]

NextEnrich ==
    \/ \E packet \in EnrichPackets : GroupPacket(packet)
    \/ EndGroup
    \/ BindVendors
    \/ BindPasswords(call.passwords)
    \/ SkipPasswords
    \/ \E mac \in todo : EstimateAp(mac)
    \/ EndEstimate

SpecEnrich == InitEnrich /\ [][NextEnrich]_vars

\* address present, signal present, and the track yields a position
Qualifies(packet) ==
    /\ IsSome(packet.source_address)
    /\ IsSome(packet.signal_strength)
    /\ IsSome(get_position_at(packet.timestamp, positions))

Qualifying(pkts) == { i \in 1..Len(pkts) : Qualifies(pkts[i]) }

QualifyingOf(pkts, mac) == { i \in Qualifying(pkts) : pkts[i].source_address = Some(mac) }

RECURSIVE SumOfLens(_, _)
SumOfLens(aps, macs) ==
    IF macs = {} THEN 0
    ELSE LET m == CHOOSE x \in macs : TRUE
         IN  Len(aps[m].observations) + SumOfLens(aps, macs \ {m})

(* C11: while packets are aggregated there is exactly one access point per   *)
(* distinct MAC among the qualifying packets read so far (address, signal    *)
(* and a position at the packet's time), keyed and named by that MAC, none   *)
(* for any other MAC, and the observations of all access points together     *)
(* are as many as the qualifying packets; a packet that does not qualify     *)
(* leaves every access point as it was.                                      *)
C11_OnePerQualifyingMac ==
    /\ [](pc = "group" =>
            /\ DOMAIN access_points
                 = { Unwrap(packets[i].source_address) : i \in Qualifying(packets) }
            /\ \A mac \in DOMAIN access_points : access_points[mac].mac = mac
            /\ SumOfLens(access_points, DOMAIN access_points)
                 = Cardinality(Qualifying(packets)))
    /\ [][(/\ pc = "group"
           /\ Len(packets') = Len(packets) + 1
           /\ ~Qualifies(packets'[Len(packets')]))
             => access_points' = access_points]_vars

\* two access points out of three packets, one of which did not qualify
C11_Witness ==
    /\ pc = "group"
    /\ Len(packets) = 3
    /\ Cardinality(Qualifying(packets)) = 2
    /\ ~Qualifies(packets[2])
    /\ DOMAIN access_points = {Mac1, Mac2}

(* C12: over the whole run, an access point whose ssid holds a value keeps   *)
(* that value in the next state, and so does one whose security holds a      *)
(* value: neither is changed to another value nor to unset.                  *)
C12_SsidSecurityKept ==
    [][\A mac \in DOMAIN access_points :
          /\ mac \in DOMAIN access_points'
          /\ IsSome(access_points[mac].ssid)
                => access_points'[mac].ssid = access_points[mac].ssid
          /\ IsSome(access_points[mac].security)
                => access_points'[mac].security = access_points[mac].security]_vars

\* "cafe"/Open seen first, then "home"/WPA2, then a record for "home": still "cafe"/Open
C12_Witness ==
    /\ pc = "estimate"
    /\ Len(packets) = 2
    /\ packets[1].ssid = Some("cafe") /\ packets[1].source_address = Some(Mac1)
    /\ packets[2].ssid = Some("home") /\ Qualifies(packets[2])
    /\ packets[2].source_address = Some(Mac1)
    /\ Len(call.passwords) = 2
    /\ call.passwords[1].ssid = "home" /\ call.passwords[2].ssid = "cafe"
    /\ access_points[Mac1].ssid = Some("cafe")
    /\ access_points[Mac1].security = Some("Open")
    /\ access_points[Mac1].password = Some("latte")

\* what the first qualifying packet of mac that carries the field carries, None if none does
FirstCarried(mac, field) ==
    LET carrying == { i \in QualifyingOf(packets, mac) : IsSome(packets[i][field]) }
    IN  IF carrying = {} THEN None ELSE packets[SetMin(carrying)][field]

(* C13 as claimed: after aggregation the ssid, the channel and the security  *)
(* of an access point are each what the first qualifying packet of its MAC   *)
(* that carries the field carries; the channel is set as soon as one         *)
(* qualifying packet of the MAC carries one.                                 *)
C13_AsClaimed ==
    pc = "group" =>
        \A mac \in DOMAIN access_points :
            /\ access_points[mac].ssid = FirstCarried(mac, "ssid")
            /\ access_points[mac].channel = FirstCarried(mac, "channel")
            /\ access_points[mac].security = FirstCarried(mac, "security")

\* the sequences that hold the elements of pkts in another order
Reorderings(pkts) ==
    { [i \in 1..Len(pkts) |-> pkts[f[i]]] :
        f \in { g \in [1..Len(pkts) -> 1..Len(pkts)] :
                  \A i, j \in 1..Len(pkts) : i # j => g[i] # g[j] } }

(* C14 as claimed: for the track of the run, aggregation of the packets in   *)
(* any other order gives every MAC the same observation list.                *)
C14_AsClaimed ==
    pc = "group" =>
        \A perm \in Reorderings(packets) :
            LET other == group_packets_by_mac(perm, positions)
            IN  /\ DOMAIN other = DOMAIN access_points
                /\ \A mac \in DOMAIN access_points :
                      other[mac].observations = access_points[mac].observations

\* the access point of mac after the first k records, from the state before the step
AfterRecords(mac, k) ==
    BindPasswordsFrom(access_points[mac], SubSeq(call.passwords, 1, k), 1)

OptionalFields == {"ssid", "security", "vendor", "password"}

KeptFields == {"mac", "observations", "channel", "estimated_position"}

\* from a to b no set optional field is changed and the kept fields are as they were
OnlyFills(a, b) ==
    /\ \A f \in OptionalFields : IsSome(a[f]) => b[f] = a[f]
    /\ \A f \in KeptFields : b[f] = a[f]

(* C15 as claimed: the vendor step, and every single record of the password  *)
(* step, leaves each optional field (ssid, security, vendor, password) that  *)
(* holds a value at that moment as it is, and leaves mac, observations,      *)
(* channel and estimated_position unchanged.                                 *)
C15_AsClaimed ==
    /\ pc = "vendors" =>
          \A mac \in DOMAIN access_points :
              OnlyFills(access_points[mac], bind_vendors_to_aps(access_points)[mac])
    /\ pc = "passwords" =>
          \A mac \in DOMAIN access_points :
              \A k \in 0..(Len(call.passwords) - 1) :
                  OnlyFills(AfterRecords(mac, k), AfterRecords(mac, k + 1))

(* C20: in the password step, for every record in turn: a record of the      *)
(* access point's MAC whose SSID differs from the ssid set at that moment    *)
(* changes no field; one applied while the ssid is unset sets the ssid and   *)
(* the password to its own; one whose SSID is the ssid set sets the password *)
(* and leaves the ssid (of the other fields only an unset security is        *)
(* touched).  After the step a password bound to an access point is that of  *)
(* a record with the same MAC whose SSID is the access point's ssid.         *)
C20_PasswordBySsid ==
    /\ pc = "passwords" =>
          \A mac \in DOMAIN access_points :
              \A k \in 0..(Len(call.passwords) - 1) :
                  LET before == AfterRecords(mac, k)
                      after  == AfterRecords(mac, k + 1)
                      pwd    == call.passwords[k + 1]
                  IN  /\ (/\ pwd.mac = mac
                          /\ IsSome(before.ssid)
                          /\ before.ssid # Some(pwd.ssid)) => after = before
                      /\ (pwd.mac = mac /\ IsNone(before.ssid)) =>
                            /\ after.ssid = Some(pwd.ssid)
                            /\ after.password = Some(pwd.password)
                      /\ (pwd.mac = mac /\ before.ssid = Some(pwd.ssid)) =>
                            /\ after.password = Some(pwd.password)
                            /\ after.ssid = before.ssid
                      /\ \A f \in KeptFields \cup {"vendor", "position_method"} :
                            after[f] = before[f]
                      /\ IsSome(before.security) => after.security = before.security
    /\ pc \in {"estimate", "done"} =>
          \A mac \in DOMAIN access_points :
              IsSome(access_points[mac].password) =>
                  \E i \in 1..Len(call.passwords) :
                      /\ call.passwords[i].mac = mac
                      /\ Some(call.passwords[i].ssid) = access_points[mac].ssid
                      /\ Some(call.passwords[i].password) = access_points[mac].password

\* ssid "home" from a packet; the record for "cafe" is dropped, the one for "home" bound
C20_Witness ==
    /\ pc = "estimate"
    /\ call.passwords = << APPassword(Mac1, "cafe", "latte", "WPA2"),
                           APPassword(Mac1, "home", "secret", "WPA2") >>
    /\ Len(packets) = 1 /\ packets[1].ssid = Some("home") /\ Qualifies(packets[1])
    /\ access_points[Mac1].ssid = Some("home")
    /\ access_points[Mac1].password = Some("secret")

----------------------------------------------------------------------------
(* Harness of weighted_centroid and trilateration.  Both are called on lists *)
(* that filter_close_observations has left: strongest first, no two          *)
(* observations at one place.                                                *)

EstimatePoints ==
    { Position(0, 0, 1), Position(60, 60, 2), Position(200, 200, 3),
      Position(POLAR_CUT - 150, 0, 4), Position(POLAR_CUT - 100, 0, 5),
      Position(POLAR_CUT + 100, 0, 6) }

EstimateSignals == { -40, -98, -99, -100, -110 }

EstimateObs ==
    { Observation(p, sig, rssi_to_distance(sig)) : p \in EstimatePoints, sig \in EstimateSignals }

\* a list may go on with x: strongest first, every place once, one band
GoesOn(q, x) ==
    /\ Len(q) > 0 => q[Len(q)].signal_strength >= x.signal_strength
    /\ \A i \in 1..Len(q) :
          /\ q[i].position # x.position
          /\ (q[i].position.latitude > POLAR_CUT \div 2)
               = (x.position.latitude > POLAR_CUT \div 2)

RECURSIVE EstimateListsUpTo(_)
EstimateListsUpTo(n) ==
    IF n = 0 THEN { << >> }
    ELSE LET shorter == EstimateListsUpTo(n - 1)
             longest == { t \in shorter : Len(t) = n - 1 }
         IN  shorter \cup UNION { { Append(q, x) : x \in { y \in EstimateObs : GoesOn(q, y) } } :
                                    q \in longest }

EstimateLists == EstimateListsUpTo(MaxObs)

InitEstimate ==
    /\ pc = "call"
    /\ positions = << >>
    /\ packets = << >>
    /\ access_points = NoAps
    /\ todo = {}
    /\ \E obs \in EstimateLists :
          call = [fn |-> "none", done |-> FALSE, observations |-> obs]

CallWeightedCentroid ==
    /\ pc = "call"
    /\ call.fn = "none"
    /\ call' = [fn |-> "weighted_centroid", done |-> TRUE,
                observations |-> call.observations,
                ret |-> weighted_centroid(call.observations)]
    /\ UNCHANGED <<pc, positions, packets, access_points, todo>>

\* steps and exit are how the loop of the call ended, for lists of 3 or more
CallTrilateration ==
    /\ pc = "call"
    /\ call.fn = "none"
    /\ LET initial == weighted_centroid(call.observations)
           end == IF Len(call.observations) < 3 THEN [steps |-> 0, exit |-> "no_loop"]
                  ELSE TrilatLoop(0, Unwrap(initial).latitude * 1000,
                                  Unwrap(initial).longitude * 1000, call.observations)
       IN  call' = [fn |-> "trilateration", done |-> TRUE,
                    observations |-> call.observations,
                    ret |-> trilateration(call.observations),
                    steps |-> end.steps, exit |-> end.exit]
    /\ UNCHANGED <<pc, positions, packets, access_points, todo>>

NextEstimate == CallWeightedCentroid \/ CallTrilateration

SpecEstimate == InitEstimate /\ [][NextEstimate]_vars

\* max(0, (rssi + 100) / 75 * 100), in units of 4/3
LinearWeight(signal) == IF signal <= -100 THEN 0 ELSE signal + 100

AllAtOrBelowMinus100(observations) ==
    \A i \in 1..Len(observations) : observations[i].signal_strength <= -100

\* the mean of the coordinate coord of the observations under the weights w
MeanOf(observations, coord, w) ==
    DivT(SumOver([i \in 1..Len(observations) |-> observations[i].position[coord] * w[i]],
                 1, Len(observations)),
         SumOver(w, 1, Len(observations)))

(* C16: weighted_centroid of a non-empty list is a position with the first   *)
(* observation's timestamp; it is the plain mean of the positions when every *)
(* signal is at or below -100 dBm, and otherwise the mean weighted by        *)
(* max(0, (rssi + 100) / 75 * 100): the total weight is 0 exactly when every *)
(* signal is at or below -100 dBm.                                           *)
C16_WeightedCentroid ==
    (call.fn = "weighted_centroid" /\ call.done /\ Len(call.observations) > 0) =>
        LET obs == call.observations
            w == IF AllAtOrBelowMinus100(obs)
                 THEN [i \in 1..Len(obs) |-> 1]
                 ELSE [i \in 1..Len(obs) |-> LinearWeight(obs[i].signal_strength)]
        IN  /\ IsSome(call.ret)
            /\ Unwrap(call.ret).timestamp = obs[1].position.timestamp
            /\ Unwrap(call.ret).latitude = MeanOf(obs, "latitude", w)
            /\ Unwrap(call.ret).longitude = MeanOf(obs, "longitude", w)

\* -40 dBm at (0,0), -110 dBm at (60,60): the weak one has no weight
C16_Witness ==
    /\ call.fn = "weighted_centroid" /\ call.done
    /\ Len(call.observations) = 2
    /\ call.observations[1].signal_strength = -40
    /\ call.observations[1].position = Position(0, 0, 1)
    /\ call.observations[2].signal_strength = -110
    /\ call.observations[2].position = Position(60, 60, 2)
    /\ call.ret = Some(Position(0, 0, 1))

\* -100 dBm at (60,60) and -110 dBm at (0,0): the plain mean
C16_WitnessAllWeak ==
    /\ call.fn = "weighted_centroid" /\ call.done
    /\ Len(call.observations) = 2
    /\ AllAtOrBelowMinus100(call.observations)
    /\ call.observations[1].position = Position(60, 60, 2)
    /\ call.observations[2].position = Position(0, 0, 1)
    /\ call.ret = Some(Position(30, 30, 2))

\* one gradient step from the estimate <<lat, lon>>: how it ends ("zero_weight" for
\* a total weight of 0, "small" for two updates under 1e-6 degree, else "large") and
\* the estimate after it, which is the one before it where the total weight is 0
Stepped(est, observations) ==
    LET st == TrilatStep(est[1], est[2], observations)
    IN  IF st.total_weight = 0 THEN [ends |-> "zero_weight", to |-> est]
        ELSE [ends |-> IF Abs(st.update_lat) < 1000 /\ Abs(st.update_lon) < 1000
                       THEN "small" ELSE "large",
              to |-> << est[1] - st.update_lat, est[2] - st.update_lon >>]

\* path extended by n more steps, each from where the one before it led
RECURSIVE Descent(_, _, _)
Descent(path, n, observations) ==
    IF n <= 0 THEN path
    ELSE IF n = 1 THEN Append(path, Stepped(path[Len(path)].to, observations))
    ELSE LET half == Descent(path, n \div 2, observations)
         IN  IF Len(half) > 0 THEN Descent(half, n - n \div 2, observations) ELSE half

(* C19: trilateration of 3 or more observations returns a position after at  *)
(* most 100 gradient steps.  Along the descent that starts at the weighted   *)
(* centroid, the loop ends at the first step whose total weight is 0, and    *)
(* the result is then the weighted centroid itself, or whose two updates are *)
(* both under 1e-6 degree, and the result is then the estimate after that    *)
(* step; with no such step it ends after the 100th with the estimate         *)
(* reached.                                                                  *)
C19_TrilaterationEnds ==
    (call.fn = "trilateration" /\ call.done /\ Len(call.observations) >= 3) =>
        LET obs == call.observations
            w == IF AllAtOrBelowMinus100(obs)
                 THEN [i \in 1..Len(obs) |-> 1]
                 ELSE [i \in 1..Len(obs) |-> LinearWeight(obs[i].signal_strength)]
            start == << MeanOf(obs, "latitude", w), MeanOf(obs, "longitude", w) >>
            \* path[k + 1] is the k-th step
            path == Descent(<< [ends |-> "start", to |-> <<start[1] * 1000, start[2] * 1000>>] >>,
                            100, obs)
            stops == { k \in 1..100 : path[k + 1].ends \in {"zero_weight", "small"} }
            last == IF stops = {} THEN 100 ELSE SetMin(stops)
        IN  /\ IsSome(call.ret)
            /\ call.steps <= 100
            /\ call.steps = last
            /\ IF path[last + 1].ends = "zero_weight"
               THEN /\ Unwrap(call.ret).latitude = start[1]
                    /\ Unwrap(call.ret).longitude = start[2]
               ELSE /\ Unwrap(call.ret).latitude = DivT(path[last + 1].to[1], 1000)
                    /\ Unwrap(call.ret).longitude = DivT(path[last + 1].to[2], 1000)

\* in the polar band the estimate walks north for 36 steps and crosses the cut: the
\* 37th step has no weight and the weighted centroid comes back
C19_Witness ==
    /\ call.fn = "trilateration" /\ call.done
    /\ Len(call.observations) = 3
    /\ call.observations[1].position.latitude = POLAR_CUT - 150
    /\ call.exit = "zero_weight"
    /\ call.steps = 37
    /\ call.ret = Some(Position(POLAR_CUT - 80, 0, 4))

\* no step is small or without weight: the loop runs its 100 steps
C19_WitnessExhausted ==
    /\ call.fn = "trilateration" /\ call.done
    /\ call.exit = "exhausted"
    /\ call.steps = 100

\* the second step is the first small one
C19_WitnessConverged ==
    /\ call.fn = "trilateration" /\ call.done
    /\ call.exit = "converged"
    /\ call.steps = 2

====
